----------------------------- MODULE CodecProofs -----------------------------
(***************************************************************************)
(* What the words of the run-length codecs hold, and what their readers    *)
(* make of them, for bitmaps of every length and words of every size.      *)
(***************************************************************************)
EXTENDS WordCodecs, SequenceTheorems, NatLemmas

Shown == [size : Nat, ones : SUBSET Nat]

\* The words of v begin at the places at, and hold the members of S there.
Placed(v, at, S) ==
  /\ v \in Seq(Shown)
  /\ at \in [1 .. Len(v) + 1 -> Nat]
  /\ at[1] = 0
  /\ \A k \in 1 .. Len(v) : at[k + 1] = at[k] + v[k].size
  /\ \A k \in 1 .. Len(v) : v[k].ones = {i \in 0 .. v[k].size - 1 : at[k] + i \in S}

\* What is placed is all of S, bits of the bitmap.
Reads(v, at, S) ==
  /\ Placed(v, at, S)
  /\ S \subseteq 0 .. N - 1
  /\ \A i \in S : i < at[Len(v) + 1]

-----------------------------------------------------------------------------
\* A word and its place
LEMMA WordPlace ==
  ASSUME NEW v, NEW at, NEW S, Placed(v, at, S)
  PROVE  /\ Len(v) \in Nat /\ DOMAIN v = 1 .. Len(v)
         /\ \A k \in 1 .. Len(v) :
              /\ v[k].size \in Nat /\ at[k] \in Nat /\ at[k + 1] \in Nat
              /\ at[k + 1] = at[k] + v[k].size
              /\ v[k].ones = {i \in 0 .. v[k].size - 1 : at[k] + i \in S}
<1>1. v \in Seq(Shown) /\ Len(v) \in Nat
  BY DEF Placed
<1>2. DOMAIN v = 1 .. Len(v)
  BY <1>1
<1>3. ASSUME NEW k \in 1 .. Len(v)
      PROVE  /\ v[k].size \in Nat /\ at[k] \in Nat /\ at[k + 1] \in Nat
             /\ at[k + 1] = at[k] + v[k].size
             /\ v[k].ones = {i \in 0 .. v[k].size - 1 : at[k] + i \in S}
  <2>1. v[k] \in Shown
    BY <1>1
  <2>2. v[k].size \in Nat
    BY <2>1 DEF Shown
  <2>3. k \in 1 .. Len(v) + 1 /\ k + 1 \in 1 .. Len(v) + 1
    BY <1>1
  <2> QED
    BY <2>2, <2>3 DEF Placed
<1> QED
  BY <1>1, <1>2, <1>3

\* The places are in order.
LEMMA PlaceOrder ==
  ASSUME NEW v, NEW at, NEW S, Placed(v, at, S),
         NEW j \in 1 .. Len(v) + 1, NEW k \in 1 .. Len(v) + 1, j <= k
  PROVE  at[j] \in Nat /\ at[k] \in Nat /\ at[j] <= at[k]
<1>1. Len(v) \in Nat /\ at \in [1 .. Len(v) + 1 -> Nat]
  BY DEF Placed
<1>2. \A l \in 1 .. Len(v) : at[l + 1] >= at[l]
  <2>1. \A l \in 1 .. Len(v) : at[l + 1] = at[l] + v[l].size /\ v[l].size \in Nat /\ at[l] \in Nat
    BY WordPlace
  <2> QED
    BY <2>1
<1> DEFINE T == {l \in Nat : j <= l /\ l <= k /\ at[l] >= at[j]}
<1>3. j \in T
  BY <1>1
<1>4. \A l \in j .. k - 1 : l \in T => l + 1 \in T
  <2> TAKE l \in j .. k - 1
  <2> HAVE l \in T
  <2>1. l \in 1 .. Len(v) /\ l + 1 \in Nat /\ l + 1 <= k /\ j <= l + 1
    BY <1>1
  <2>2. at[l] \in Nat /\ at[l + 1] \in Nat /\ at[j] \in Nat
    BY <1>1, <2>1
  <2> QED
    BY <1>2, <2>1, <2>2
<1> HIDE DEF T
<1>5. j .. k \subseteq T
  <2>1. j \in Nat /\ k \in Nat
    BY <1>1
  <2> QED
    BY <1>3, <1>4, <2>1, ReachedUp
<1>6. k \in T
  BY <1>1, <1>5
<1> QED
  BY <1>1, <1>6 DEF T

\* Counted on from any word, the words begin at their places.
LEMMA BeginsAre ==
  ASSUME NEW v, NEW at, NEW S, Placed(v, at, S), NEW w \in 1 .. Len(v) + 1
  PROVE  \A k \in w .. Len(v) + 1 : R!Begins(v, w, at[w])[k] = at[k]
<1> DEFINE D == w .. Len(v) + 1
           Body(f) == [k \in D |-> IF k = w THEN at[w] ELSE f[k - 1] + v[k - 1].size]
           a == [k \in D |-> at[k]]
           g == CHOOSE f : f = Body(f)
<1>1. R!Begins(v, w, at[w]) = g
  BY DEF R!Begins
<1>2. Len(v) \in Nat /\ at \in [1 .. Len(v) + 1 -> Nat]
  BY DEF Placed
<1>3. \A k \in D : k # w => k - 1 \in D /\ k - 1 \in 1 .. Len(v) /\ at[k] = at[k - 1] + v[k - 1].size
  <2>1. \A k \in 1 .. Len(v) : at[k + 1] = at[k] + v[k].size
    BY WordPlace
  <2> TAKE k \in D
  <2> HAVE k # w
  <2>2. k - 1 \in D /\ k - 1 \in 1 .. Len(v) /\ (k - 1) + 1 = k
    BY <1>2
  <2> QED
    BY <2>1, <2>2
<1>4. a = Body(a)
  <2>1. \A k \in D : a[k] = IF k = w THEN at[w] ELSE a[k - 1] + v[k - 1].size
    BY <1>3
  <2> QED
    BY <2>1
<1>5. g = Body(g)
  BY <1>4
<1> DEFINE T == {k \in Nat : w <= k /\ k <= Len(v) + 1 /\ g[k] = at[k]}
<1> HIDE DEF g
<1>6. \A k \in D : g[k] = IF k = w THEN at[w] ELSE g[k - 1] + v[k - 1].size
  <2> DEFINE b == Body(g)
  <2>1. \A k \in D : b[k] = IF k = w THEN at[w] ELSE g[k - 1] + v[k - 1].size
    OBVIOUS
  <2>2. g = b
    BY <1>5
  <2> HIDE DEF b
  <2> QED
    BY <2>1, <2>2
<1>7. w \in T
  <2>1. w \in D /\ w \in Nat
    BY <1>2
  <2> QED
    BY <1>6, <2>1
<1>8. \A k \in w .. (Len(v) + 1) - 1 : k \in T => k + 1 \in T
  <2> TAKE k \in w .. (Len(v) + 1) - 1
  <2> HAVE k \in T
  <2>1. k + 1 \in D /\ k + 1 # w /\ (k + 1) - 1 = k /\ k + 1 \in Nat
    BY <1>2
  <2>2. g[k + 1] = g[k] + v[k].size /\ at[k + 1] = at[k] + v[k].size
    BY <1>3, <1>6, <2>1
  <2> QED
    BY <2>1, <2>2
<1> HIDE DEF T
<1>9. w .. Len(v) + 1 \subseteq T
  <2>1. w \in Nat /\ Len(v) + 1 \in Nat
    BY <1>2
  <2> QED
    BY <1>7, <1>8, <2>1, ReachedUp
<1> QED
  BY <1>1, <1>9 DEF T

\* A place before the end of the words is in one of them.
LEMMA FindWord ==
  ASSUME NEW v, NEW at, NEW S, Placed(v, at, S), NEW w \in 1 .. Len(v) + 1,
         NEW p \in Nat, at[w] <= p, p < at[Len(v) + 1]
  PROVE  \E k \in w .. Len(v) : at[k] <= p /\ p < at[k + 1]
<1>1. Len(v) \in Nat /\ at \in [1 .. Len(v) + 1 -> Nat]
  BY DEF Placed
<1> DEFINE T == {k \in w .. Len(v) + 1 : at[k] > p}
<1>2. T \subseteq Nat /\ T # {}
  <2>1. Len(v) + 1 \in T
    BY <1>1
  <2>2. T \subseteq Nat
    BY <1>1
  <2> QED
    BY <2>1, <2>2
<1>3. PICK m \in T : \A k \in T : m <= k
  BY <1>2, LeastNatural
<1>4. m # w /\ m \in w .. Len(v) + 1 /\ at[m] > p /\ m \in Nat
  BY <1>1, <1>2
<1>5. m - 1 \in w .. Len(v) /\ m - 1 \in w .. Len(v) + 1 /\ (m - 1) + 1 = m /\ ~(m <= m - 1)
  BY <1>1, <1>4
<1>6. m - 1 \notin T
  BY <1>3, <1>5
<1>7. at[m - 1] <= p
  BY <1>1, <1>5, <1>6
<1> QED
  BY <1>4, <1>5, <1>7

\* test(), from any word that does not begin behind the position
LEMMA TestRight ==
  ASSUME NEW v, NEW at, NEW S, Reads(v, at, S), NEW w \in 1 .. Len(v) + 1,
         NEW p \in Nat, at[w] <= p
  PROVE  R!TestFrom(v, w, at[w], p) <=> p \in S
<1>1. Placed(v, at, S) /\ \A i \in S : i < at[Len(v) + 1]
  BY DEF Reads
<1>2. /\ Len(v) \in Nat
      /\ \A k \in 1 .. Len(v) :
           /\ v[k].size \in Nat /\ at[k] \in Nat /\ at[k + 1] \in Nat
           /\ at[k + 1] = at[k] + v[k].size
           /\ v[k].ones = {i \in 0 .. v[k].size - 1 : at[k] + i \in S}
  BY <1>1, WordPlace
<1>3. \A k \in w .. Len(v) + 1 : R!Begins(v, w, at[w])[k] = at[k]
  BY <1>1, BeginsAre
<1>4. \A k \in w .. Len(v) : at[k] <= p /\ p < at[k + 1] => (p - at[k] \in v[k].ones <=> p \in S)
  <2> TAKE k \in w .. Len(v)
  <2> HAVE at[k] <= p /\ p < at[k + 1]
  <2>1. k \in 1 .. Len(v)
    BY <1>2
  <2> DEFINE d == p - at[k]
  <2>2. d \in 0 .. v[k].size - 1 /\ at[k] + d = p
    <3>1. \A a \in Nat, s \in Nat : a <= p /\ p < a + s => p - a \in 0 .. s - 1 /\ a + (p - a) = p
      OBVIOUS
    <3>2. v[k].size \in Nat /\ at[k] \in Nat /\ at[k] <= p /\ p < at[k] + v[k].size
      BY <1>2, <2>1
    <3> QED
      BY <3>1, <3>2
  <2> HIDE DEF d
  <2>3. d \in v[k].ones <=> p \in S
    BY <1>2, <2>1, <2>2
  <2> QED
    BY <2>3 DEF d
<1>5. R!TestFrom(v, w, at[w], p) <=>
        \E k \in w .. Len(v) : at[k] <= p /\ p < at[k + 1] /\ p - at[k] \in v[k].ones
  <2>1. \A k \in w .. Len(v) : k \in w .. Len(v) + 1 /\ k + 1 \in w .. Len(v) + 1
    BY <1>2
  <2>2. \A k \in w .. Len(v) : /\ R!Begins(v, w, at[w])[k] = at[k]
                              /\ R!Begins(v, w, at[w])[k + 1] = at[k + 1]
    BY <1>3, <2>1
  <2> QED
    BY <2>2 DEF R!TestFrom
<1>6. p \in S => \E k \in w .. Len(v) : at[k] <= p /\ p < at[k + 1]
  BY <1>1, FindWord
<1> QED
  BY <1>4, <1>5, <1>6

\* The 1-bits of all words
LEMMA OnesRight ==
  ASSUME NEW v, NEW at, NEW S, Reads(v, at, S)
  PROVE  R!Ones(v) = S
<1>1. Placed(v, at, S) /\ \A i \in S : i < at[Len(v) + 1]
  BY DEF Reads
<1>2. /\ Len(v) \in Nat /\ DOMAIN v = 1 .. Len(v)
      /\ \A k \in 1 .. Len(v) :
           /\ v[k].size \in Nat /\ at[k] \in Nat /\ at[k + 1] \in Nat
           /\ at[k + 1] = at[k] + v[k].size
           /\ v[k].ones = {i \in 0 .. v[k].size - 1 : at[k] + i \in S}
  BY <1>1, WordPlace
<1>3. at[1] = 0 /\ 1 \in 1 .. Len(v) + 1
  BY <1>1, <1>2 DEF Placed
<1>4. \A k \in 1 .. Len(v) : R!Begins(v, 1, 0)[k] = at[k]
  <2>1. \A k \in 1 .. Len(v) + 1 : R!Begins(v, 1, at[1])[k] = at[k]
    BY <1>1, <1>3, BeginsAre
  <2>2. \A k \in 1 .. Len(v) : k \in 1 .. Len(v) + 1
    BY <1>2
  <2> QED
    BY <1>3, <2>1, <2>2
<1>5. \A x : x \in R!Ones(v) <=> \E k \in 1 .. Len(v) : \E i \in v[k].ones : x = at[k] + i
  <2> DEFINE B == R!Begins(v, 1, 0)
             C(k) == {B[k] + i : i \in v[k].ones}
  <2>1. R!Ones(v) = UNION {C(k) : k \in 1 .. Len(v)}
    BY <1>2 DEF R!Ones
  <2> HIDE DEF B
  <2>2. \A k \in 1 .. Len(v) : \A x : x \in C(k) <=> \E i \in v[k].ones : x = B[k] + i
    OBVIOUS
  <2> HIDE DEF C
  <2>3. \A x : x \in UNION {C(k) : k \in 1 .. Len(v)} <=> \E k \in 1 .. Len(v) : x \in C(k)
    OBVIOUS
  <2>4. \A x : x \in R!Ones(v) <=> \E k \in 1 .. Len(v) : \E i \in v[k].ones : x = B[k] + i
    BY <2>1, <2>2, <2>3
  <2> QED
    BY <1>4, <2>4 DEF B
<1>6. ASSUME NEW x \in S PROVE \E k \in 1 .. Len(v) : \E i \in v[k].ones : x = at[k] + i
  <2>1. x \in Nat /\ at[1] <= x
    BY <1>3 DEF Reads
  <2>2. PICK k \in 1 .. Len(v) : at[k] <= x /\ x < at[k + 1]
    BY <1>1, <1>3, <2>1, FindWord
  <2>3. x - at[k] \in 0 .. v[k].size - 1 /\ at[k] + (x - at[k]) = x
    BY <1>2, <2>1, <2>2
  <2>4. x - at[k] \in v[k].ones
    BY <1>2, <2>3
  <2> QED
    BY <2>3, <2>4
<1>7. \A k \in 1 .. Len(v) : \A i \in v[k].ones : at[k] + i \in S
  BY <1>2
<1> QED
  BY <1>5, <1>6, <1>7, Zenon

-----------------------------------------------------------------------------
\* The words that have an entry in the index
Indexed(v, j) == j \in Nat /\ j * SkipDistance + 1 \in 1 .. Len(v) + 1

\* An entry of the index is the place of its word, and one is not behind the
\* position.
LEMMA EntryRight ==
  ASSUME NEW v, NEW at, NEW S, Placed(v, at, S), NEW p \in Nat
  PROVE  LET offsets_ == R!init_skip_offsets(v)
             j == R!Entry(offsets_, p)
         IN  Indexed(v, j) /\ offsets_[j] = at[j * SkipDistance + 1] /\ offsets_[j] <= p
<1> DEFINE last == IF Len(v) > 1 THEN (Len(v) - 2) \div SkipDistance ELSE 0
           table == R!init_skip_offsets(v)
           B == {i \in 0 .. last : table[i] <= p}
<1>1. Len(v) \in Nat /\ at \in [1 .. Len(v) + 1 -> Nat] /\ at[1] = 0
  BY DEF Placed
<1>2. SkipDistance \in Nat /\ SkipDistance > 0
  BY WordCodecsAssumption
<1>3. last \in Nat /\ \A i \in 0 .. last : Indexed(v, i)
  <2>1. CASE Len(v) > 1
    <3>1. PICK q \in Nat : q = Len(v) - 2
      BY <1>1, <2>1
    <3>2. q \div SkipDistance \in Nat
      BY <1>2, <3>1, BlockOf
    <3>3. \A i \in 0 .. q \div SkipDistance : i * SkipDistance \in Nat /\ i * SkipDistance <= q
      <4> TAKE i \in 0 .. q \div SkipDistance
      <4>1. i \in Nat /\ ~(q \div SkipDistance < i)
        BY <3>2
      <4>2. SkipDistance * i \in Nat /\ ~(q < SkipDistance * i)
        BY <1>2, <4>1, BeforeBlock
      <4>3. SkipDistance * i = i * SkipDistance
        BY <1>2, <4>1
      <4> QED
        BY <4>2, <4>3
    <3>4. last = q \div SkipDistance
      BY <2>1, <3>1
    <3> HIDE DEF last
    <3> QED
      BY <1>1, <3>1, <3>2, <3>3, <3>4 DEF Indexed
  <2>2. CASE ~(Len(v) > 1)
    <3>1. last = 0 /\ \A i \in 0 .. 0 : i = 0
      BY <2>2
    <3>2. 0 * SkipDistance + 1 = 1
      BY <1>2
    <3> QED
      BY <1>1, <3>1, <3>2 DEF Indexed
  <2> QED
    BY <2>1, <2>2
<1>4. table = [i \in 0 .. last |-> R!Begins(v, 1, 0)[i * SkipDistance + 1]]
  BY DEF R!init_skip_offsets
<1> HIDE DEF last, table
<1>5. \A i \in 0 .. last : table[i] = at[i * SkipDistance + 1]
  <2>1. \A k \in 1 .. Len(v) + 1 : R!Begins(v, 1, at[1])[k] = at[k]
    <3>1. 1 \in 1 .. Len(v) + 1
      BY <1>1
    <3> QED
      BY <3>1, BeginsAre
  <2> QED
    BY <1>1, <1>3, <1>4, <2>1 DEF Indexed
<1>6. DOMAIN table = 0 .. last
  BY <1>4
<1>7. 0 \in B
  <2>1. 0 * SkipDistance + 1 = 1
    BY <1>2
  <2> QED
    BY <1>1, <1>3, <1>5, <2>1
<1>8. Max(B) \in B
  <2>1. B \subseteq 0 .. last /\ B # {}
    BY <1>7
  <2> HIDE DEF B
  <2> QED
    BY <1>3, <2>1, MaxOf
<1>9. R!Entry(table, p) = Max(B)
  <2>1. R!Entry(table, p) = R!Max(B)
    BY <1>6 DEF R!Entry
  <2> QED
    BY <2>1 DEF R!Max, Max
<1> QED
  BY <1>3, <1>5, <1>8, <1>9 DEF table

\* test() from the indexed word on
LEMMA IndexTestRight ==
  ASSUME NEW v, NEW at, NEW S, Reads(v, at, S), NEW p \in Nat
  PROVE  R!test_by_index(v, R!init_skip_offsets(v), p) <=> p \in S
<1> DEFINE table == R!init_skip_offsets(v)
           j == R!Entry(table, p)
           w == j * SkipDistance + 1
<1>1. Placed(v, at, S)
  BY DEF Reads
<1>2. Indexed(v, j) /\ table[j] = at[w] /\ table[j] <= p
  BY <1>1, EntryRight
<1>3. w \in 1 .. Len(v) + 1 /\ at[w] <= p
  BY <1>2 DEF Indexed
<1> HIDE DEF table, j
<1>4. R!test_by_index(v, table, p) <=> R!TestFrom(v, w, at[w], p)
  BY <1>2 DEF R!test_by_index, j
<1> HIDE DEF w
<1>5. R!TestFrom(v, w, at[w], p) <=> p \in S
  BY <1>3, TestRight
<1> QED
  BY <1>4, <1>5 DEF table

-----------------------------------------------------------------------------
\* An iterator stands in a word, up to which bit it has read.
Standing(v, at, i) ==
  /\ i \in [word : 1 .. Len(v) + 1, in : Nat, pos : Nat, length : Nat]
  /\ i.pos + i.length = at[i.word] + i.in
  /\ i.word <= Len(v) => i.in <= v[i.word].size
  /\ i.word = Len(v) + 1 => i.in = 0

\* It gives the first bits of S from p on, or is at its end.
FirstFrom(S, p, i) ==
  /\ i.pos \in Nat /\ i.length \in Nat /\ i.length > 0
  /\ i.pos \in S /\ p <= i.pos
  /\ \A x \in S : x >= p => x >= i.pos
  /\ i.pos .. i.pos + i.length - 1 \subseteq S

NoneFrom(v, S, p, i) == i = R!AtEnd(v, N) /\ \A x \in S : ~(x >= p)

\* The place behind what an iterator has read
behind(i) == i.pos + i.length

\* next() gives the next bits of S.
LEMMA NextGives ==
  ASSUME NEW v, NEW at, NEW S, Reads(v, at, S), NEW i, Standing(v, at, i)
  PROVE  \/ NoneFrom(v, S, behind(i), R!next(v, i))
         \/ Standing(v, at, R!next(v, i)) /\ FirstFrom(S, behind(i), R!next(v, i))
<1> DEFINE p == behind(i)
           Left(k) == {b \in v[k].ones : k = i.word => b >= i.in}
           hits == {k \in i.word .. Len(v) : Left(k) # {}}
<1>1. Placed(v, at, S) /\ (\A x \in S : x < at[Len(v) + 1]) /\ S \subseteq 0 .. N - 1
  BY DEF Reads
<1>2. /\ Len(v) \in Nat
      /\ \A k \in 1 .. Len(v) :
           /\ v[k].size \in Nat /\ at[k] \in Nat /\ at[k + 1] \in Nat
           /\ at[k + 1] = at[k] + v[k].size
           /\ v[k].ones = {x \in 0 .. v[k].size - 1 : at[k] + x \in S}
  BY <1>1, WordPlace
<1>3. /\ i.word \in 1 .. Len(v) + 1 /\ i.in \in Nat /\ p \in Nat
      /\ at[i.word] \in Nat /\ p = at[i.word] + i.in
      /\ i.word <= Len(v) => i.in <= v[i.word].size
      /\ i.word = Len(v) + 1 => i.in = 0
  <2>1. at \in [1 .. Len(v) + 1 -> Nat]
    BY <1>1 DEF Placed
  <2> QED
    BY <2>1 DEF Standing, behind
<1>4. \A k \in i.word .. Len(v) : k \in 1 .. Len(v)
  BY <1>2, <1>3
<1>5. ASSUME NEW k \in i.word .. Len(v), NEW b \in Left(k)
      PROVE  b \in 0 .. v[k].size - 1 /\ at[k] + b \in S /\ at[k] + b >= p
  <2>1. b \in 0 .. v[k].size - 1 /\ at[k] + b \in S
    BY <1>2, <1>4
  <2>2. CASE k = i.word
    BY <1>2, <1>3, <1>4, <2>1, <2>2
  <2>3. CASE k # i.word
    <3>1. /\ i.word \in 1 .. Len(v) /\ i.word + 1 \in 1 .. Len(v) + 1 /\ k \in 1 .. Len(v) + 1
          /\ i.word + 1 <= k /\ i.word <= Len(v)
      <4>1. \A w \in Nat, l \in Nat : \A kk \in w .. l :
              w # 0 /\ kk # w => /\ w \in 1 .. l /\ w + 1 \in 1 .. l + 1 /\ kk \in 1 .. l + 1
                                 /\ w + 1 <= kk /\ w <= l
        OBVIOUS
      <4>2. i.word \in Nat /\ i.word # 0 /\ Len(v) \in Nat
        BY <1>2, <1>3
      <4> QED
        BY <2>3, <4>1, <4>2
    <3>2. at[i.word + 1] <= at[k]
      BY <1>1, <3>1, PlaceOrder
    <3>3. at[i.word + 1] = at[i.word] + v[i.word].size
      BY <1>2, <3>1
    <3>4. at[k] \in Nat /\ v[i.word].size \in Nat /\ at[i.word + 1] \in Nat
      BY <1>2, <1>4, <3>1
    <3>5. p <= at[k]
      <4>1. i.in <= v[i.word].size /\ i.in \in Nat /\ at[i.word] \in Nat /\ p = at[i.word] + i.in
        BY <1>3, <3>1
      <4>2. \A a \in Nat, n \in Nat, s \in Nat, l \in Nat :
              \A q : n <= s /\ a + s <= l /\ q = a + n => q <= l
        OBVIOUS
      <4> HIDE DEF p
      <4> QED
        BY <3>2, <3>3, <3>4, <4>1, <4>2
    <3> QED
      BY <1>3, <2>1, <3>4, <3>5
  <2> QED
    BY <2>2, <2>3
<1>6. ASSUME NEW x \in S, x >= p
      PROVE  \E k \in hits : \E b \in Left(k) : x = at[k] + b
  <2>1. x \in Nat /\ at[i.word] <= x /\ x < at[Len(v) + 1]
    BY <1>1, <1>3, <1>6
  <2>2. PICK k \in i.word .. Len(v) : at[k] <= x /\ x < at[k + 1]
    BY <1>1, <1>3, <2>1, FindWord
  <2>3. PICK b \in 0 .. v[k].size - 1 : x = at[k] + b
    <3>1. x - at[k] \in 0 .. v[k].size - 1 /\ x = at[k] + (x - at[k])
      <4>1. \A a \in Nat, s \in Nat : a <= x /\ x < a + s => x - a \in 0 .. s - 1 /\ x = a + (x - a)
        BY <2>1
      <4> QED
        BY <1>2, <1>4, <2>2, <4>1
    <3> QED
      BY <3>1
  <2>4. b \in v[k].ones
    BY <1>2, <1>4, <2>3
  <2>5. k = i.word => b >= i.in
    BY <1>2, <1>3, <1>4, <1>6, <2>3
  <2> QED
    BY <2>3, <2>4, <2>5
<1>7. CASE hits = {}
  <2>1. R!next(v, i) = R!AtEnd(v, N)
    BY <1>7 DEF R!next
  <2> QED
    BY <1>6, <1>7, <2>1 DEF NoneFrom
<1>8. CASE hits # {}
  <2>1. PICK k \in hits : k = Min(hits) /\ \A y \in hits : k <= y
    <3>1. hits \subseteq Nat
      BY <1>2, <1>3
    <3> QED
      BY <1>8, <3>1, MinOf
  <2>2. k \in i.word .. Len(v) /\ k \in 1 .. Len(v) /\ Left(k) # {}
    BY <1>4
  <2>3. v[k].size \in Nat /\ at[k] \in Nat
    BY <1>2, <2>2
  <2>4. PICK b \in Left(k) : b = Min(Left(k)) /\ \A y \in Left(k) : b <= y
    <3>1. Left(k) \subseteq Nat
      BY <1>5, <2>2
    <3> QED
      BY <2>2, <3>1, MinOf
  <2>5. /\ b \in 0 .. v[k].size - 1 /\ b \in Nat /\ b \in v[k].ones /\ (k = i.word => b >= i.in)
        /\ at[k] + b \in S /\ at[k] + b >= p
    BY <1>5, <2>2
  <2> DEFINE E == (b .. v[k].size) \ v[k].ones
  <2>6. PICK e \in E : e = Min(E) /\ \A y \in E : e <= y
    <3>1. v[k].size \in E
      BY <1>2, <2>2, <2>3, <2>5
    <3>2. E \subseteq Nat
      BY <2>3, <2>5
    <3> HIDE DEF E
    <3> QED
      BY <3>1, <3>2, MinOf
  <2>7. e \in Nat /\ b < e /\ e <= v[k].size
    BY <2>3, <2>5
  <2>8. \A y \in b .. e - 1 : y \in v[k].ones
    <3> TAKE y \in b .. e - 1
    <3>1. y \in b .. v[k].size /\ ~(e <= y)
      BY <2>3, <2>5, <2>7
    <3>2. y \notin E
      BY <2>6, <3>1
    <3> QED
      BY <3>1, <3>2
  <2>9. R!Begins(v, i.word, i.pos + i.length - i.in)[k] = at[k]
    <3>1. i.pos + i.length - i.in = at[i.word]
      BY <1>3 DEF Standing, behind
    <3>2. k \in i.word .. Len(v) + 1
      BY <1>2, <1>3, <2>2
    <3> QED
      BY <1>1, <1>3, <3>1, <3>2, BeginsAre
  <2>10. R!next(v, i) = [word |-> k, in |-> e, length |-> e - b, pos |-> at[k] + b]
    <3>1. R!Min(hits) = k /\ R!Min(Left(k)) = b /\ R!Min(E) = e
      BY <2>1, <2>4, <2>6 DEF R!Min, Min
    <3> QED
      BY <1>8, <2>9, <3>1 DEF R!next
  <2> HIDE DEF hits, Left, E
  <2> DEFINE n == [word |-> k, in |-> e, length |-> e - b, pos |-> at[k] + b]
  <2>11. /\ n \in [word : 1 .. Len(v) + 1, in : Nat, pos : Nat, length : Nat]
         /\ n.pos = at[k] + b /\ n.length = e - b /\ n.word = k /\ n.in = e
         /\ n.pos + n.length = at[k] + e /\ n.length > 0 /\ n.pos \in Nat /\ n.length \in Nat
    <3>1. k \in 1 .. Len(v) + 1
      BY <1>2, <2>2
    <3>2. at[k] + b \in Nat /\ e - b \in Nat /\ e - b > 0 /\ (at[k] + b) + (e - b) = at[k] + e
      BY <2>3, <2>5, <2>7
    <3> QED
      BY <2>7, <3>1, <3>2
  <2> HIDE DEF n
  <2>12. Standing(v, at, n)
    BY <1>2, <2>2, <2>7, <2>11 DEF Standing
  <2>13. \A x \in S : x >= p => x >= at[k] + b
    <3> TAKE x \in S
    <3> HAVE x >= p
    <3>1. PICK kk \in hits : \E bb \in Left(kk) : x = at[kk] + bb
      BY <1>6
    <3>2. PICK bb \in Left(kk) : x = at[kk] + bb
      BY <3>1
    <3>3. k <= kk /\ kk \in i.word .. Len(v) /\ kk \in 1 .. Len(v)
      BY <1>4, <2>1 DEF hits
    <3>4. bb \in Nat /\ at[kk] \in Nat
      BY <1>2, <1>5, <3>3
    <3>5. CASE kk = k
      BY <2>3, <2>4, <2>5, <3>2, <3>4, <3>5
    <3>6. CASE kk # k
      <4>1. k + 1 \in 1 .. Len(v) + 1 /\ kk \in 1 .. Len(v) + 1 /\ k + 1 <= kk
        BY <1>2, <2>2, <3>3, <3>6
      <4>2. at[k + 1] <= at[kk] /\ at[k + 1] = at[k] + v[k].size
        BY <1>1, <1>2, <2>2, <4>1, PlaceOrder
      <4> QED
        BY <2>3, <2>5, <3>2, <3>4, <4>2
    <3> QED
      BY <3>5, <3>6
  <2>14. n.pos .. n.pos + n.length - 1 \subseteq S
    <3> SUFFICES ASSUME NEW x \in n.pos .. n.pos + n.length - 1 PROVE x \in S
      OBVIOUS
    <3>1. x - at[k] \in b .. e - 1 /\ at[k] + (x - at[k]) = x
      <4>1. \A a \in Nat : \A y \in a + b .. a + e - 1 : y - a \in b .. e - 1 /\ a + (y - a) = y
        BY <2>5, <2>7
      <4>2. x \in at[k] + b .. at[k] + e - 1
        <5>1. n.pos = at[k] + b /\ n.pos + n.length = at[k] + e
          BY <2>11
        <5>2. PICK u \in Nat, w \in Nat : u = at[k] + b /\ w = at[k] + e
          BY <2>3, <2>5, <2>7
        <5>3. PICK y \in Nat, z \in Nat : y = n.pos /\ z = n.length /\ y = u /\ y + z = w
          BY <2>11, <5>1, <5>2
        <5>4. x \in y .. y + z - 1
          BY <5>3
        <5>5. x \in u .. w - 1
          BY <5>3, <5>4
        <5> QED
          BY <2>3, <2>5, <2>7, <5>2, <5>5
      <4> QED
        BY <2>3, <4>1, <4>2
    <3>2. x - at[k] \in v[k].ones
      BY <2>8, <3>1
    <3>3. at[k] + (x - at[k]) \in S
      BY <1>2, <2>2, <3>2
    <3> QED
      BY <3>1, <3>3
  <2>15. FirstFrom(S, p, n)
    BY <2>5, <2>11, <2>13, <2>14 DEF FirstFrom
  <2> QED
    BY <2>10, <2>12, <2>15 DEF n, p
<1> QED
  BY <1>7, <1>8

-----------------------------------------------------------------------------
\* The bits that an iterator gives are in S, and they end where it has read to.
Giving(v, at, S, i) ==
  /\ Standing(v, at, i)
  /\ i.pos < N
  /\ i.pos .. i.pos + i.length - 1 \subseteq S

\* What a walk to a position passes through: the iterator where it starts, the
\* end, and iterators that give bits
Walkers(v, at, S, first) ==
  {first, R!AtEnd(v, N)} \cup
  {i \in [word : 1 .. Len(v) + 1, in : Nat, pos : Nat, length : Nat] :
     Giving(v, at, S, i) /\ i.length > 0}

\* What the walk goes on from
Passing(to, i) == i.pos < N /\ i.pos + i.length <= to

\* A walk from first to a position, of as many steps as the bitmap has bits
Walk(v, first, to, g) ==
  /\ g[0] = first
  /\ \A k \in 1 .. N : g[k] = IF Passing(to, g[k - 1]) THEN R!next(v, g[k - 1]) ELSE g[k - 1]

\* Where a walk has come to, nothing from the position on was passed.
Arrived(v, at, S, to, i) ==
  \/ NoneFrom(v, S, to, i)
  \/ /\ Giving(v, at, S, i)
     /\ i.length = 0 => i.pos <= to
     /\ \A x \in S : x >= to => x >= i.pos

\* The next step of a walk
LEMMA WalkStep ==
  ASSUME NEW v, NEW at, NEW S, Reads(v, at, S), NEW to \in Nat,
         NEW i, Arrived(v, at, S, to, i), Passing(to, i)
  PROVE  /\ Arrived(v, at, S, to, R!next(v, i))
         /\ R!next(v, i) = R!AtEnd(v, N) \/ R!next(v, i).length > 0
         /\ Passing(to, R!next(v, i)) => behind(R!next(v, i)) > behind(i)
<1> DEFINE n == R!next(v, i)
<1>1. N \in Nat /\ S \subseteq 0 .. N - 1
  BY WordCodecsAssumption DEF Reads
<1>2. ~NoneFrom(v, S, to, i)
  BY <1>1 DEF NoneFrom, R!AtEnd, Passing
<1>3. Standing(v, at, i) /\ behind(i) \in Nat /\ behind(i) <= to
  <2>1. Standing(v, at, i)
    BY <1>2 DEF Arrived, Giving
  <2> QED
    BY <2>1 DEF Standing, Passing, behind
<1>4. \/ NoneFrom(v, S, behind(i), n)
      \/ Standing(v, at, n) /\ FirstFrom(S, behind(i), n)
  BY <1>3, NextGives
<1> HIDE DEF n
<1>5. CASE NoneFrom(v, S, behind(i), n)
  <2>1. n = R!AtEnd(v, N) /\ n.pos = N
    BY <1>5 DEF NoneFrom, R!AtEnd
  <2>2. NoneFrom(v, S, to, n)
    <3>1. \A x \in S : ~(x >= to)
      <4>1. \A x \in S : x \in Nat /\ ~(x >= behind(i))
        BY <1>1, <1>5 DEF NoneFrom
      <4> QED
        BY <1>3, <4>1
    <3> QED
      BY <2>1, <3>1 DEF NoneFrom
  <2>3. ~Passing(to, n)
    BY <1>1, <2>1 DEF Passing
  <2> QED
    BY <2>1, <2>2, <2>3 DEF Arrived, n
<1>6. CASE Standing(v, at, n) /\ FirstFrom(S, behind(i), n)
  <2>1. /\ n.pos \in Nat /\ n.length \in Nat /\ n.length > 0 /\ n.pos \in S /\ behind(i) <= n.pos
        /\ n.pos .. n.pos + n.length - 1 \subseteq S
        /\ \A x \in S : x >= behind(i) => x >= n.pos
    BY <1>6 DEF FirstFrom
  <2>2. n.pos < N
    BY <1>1, <2>1
  <2>3. behind(n) > behind(i)
    BY <1>3, <2>1 DEF behind
  <2>4. \A x \in S : x >= to => x >= n.pos
    <3>1. \A x \in S : x \in Nat
      BY <1>1
    <3> QED
      BY <1>3, <2>1, <3>1
  <2>5. Giving(v, at, S, n)
    BY <1>6, <2>1, <2>2 DEF Giving
  <2>6. Arrived(v, at, S, to, n)
    BY <2>1, <2>4, <2>5 DEF Arrived
  <2> QED
    BY <2>1, <2>3, <2>6 DEF n
<1> QED
  BY <1>4, <1>5, <1>6

\* After as many steps as the bitmap has bits the walk has arrived.
LEMMA WalkArrives ==
  ASSUME NEW v, NEW at, NEW S, Reads(v, at, S), NEW to \in Nat, to < N, NEW first, NEW g,
         Giving(v, at, S, first), first.pos <= to, Walk(v, first, to, g)
  PROVE  Arrived(v, at, S, to, g[N]) /\ ~Passing(to, g[N])
<1> DEFINE T == {k \in 0 .. N : /\ Arrived(v, at, S, to, g[k])
                                /\ Passing(to, g[k]) => behind(g[k]) >= k}
<1>1. N \in Nat
  BY WordCodecsAssumption
<1>2. first.pos \in Nat /\ first.length \in Nat
  BY DEF Giving, Standing
<1>3. 0 \in T
  <2>1. S \subseteq 0 .. N - 1
    BY DEF Reads
  <2>2. \A x \in S : x >= to => x >= first.pos
    BY <1>1, <1>2, <2>1
  <2>3. Arrived(v, at, S, to, first)
    BY <2>2 DEF Arrived
  <2>4. g[0] = first
    BY DEF Walk
  <2> QED
    BY <1>1, <1>2, <2>3, <2>4 DEF behind
<1>4. \A k \in 0 .. N - 1 : k \in T => k + 1 \in T
  <2> TAKE k \in 0 .. N - 1
  <2> HAVE k \in T
  <2>1. k + 1 \in 1 .. N /\ k + 1 \in 0 .. N /\ (k + 1) - 1 = k
    BY <1>1
  <2>2. g[k + 1] = IF Passing(to, g[k]) THEN R!next(v, g[k]) ELSE g[k]
    BY <2>1 DEF Walk
  <2>3. CASE Passing(to, g[k])
    <3>1. behind(g[k]) >= k /\ behind(g[k]) \in Nat
      <4>1. Giving(v, at, S, g[k])
        BY <1>1, <2>3 DEF Arrived, NoneFrom, R!AtEnd, Passing
      <4>2. behind(g[k]) \in Nat
        BY <4>1 DEF Giving, Standing, behind
      <4> QED
        BY <2>3, <4>2
    <3>2. /\ Arrived(v, at, S, to, R!next(v, g[k]))
          /\ Passing(to, R!next(v, g[k])) => behind(R!next(v, g[k])) > behind(g[k])
      BY <2>3, WalkStep
    <3>3. Passing(to, g[k + 1]) => behind(g[k + 1]) \in Nat
      <4>1. Passing(to, g[k + 1]) => Giving(v, at, S, g[k + 1])
        BY <1>1, <2>2, <2>3, <3>2 DEF Arrived, NoneFrom, R!AtEnd, Passing
      <4> QED
        BY <4>1 DEF Giving, Standing, behind
    <3> QED
      BY <2>1, <2>2, <2>3, <3>1, <3>2, <3>3
  <2>4. CASE ~Passing(to, g[k])
    BY <2>1, <2>2, <2>4
  <2> QED
    BY <2>3, <2>4
<1>5. N \in T
  <2> HIDE DEF T
  <2>1. 0 .. N \subseteq T
    BY <1>1, <1>3, <1>4, ReachedUp
  <2> QED
    BY <1>1, <2>1
<1>6. Passing(to, g[N]) => behind(g[N]) <= to
  BY DEF Passing, behind
<1>7. ~Passing(to, g[N])
  <2> SUFFICES ASSUME Passing(to, g[N]) PROVE FALSE
    OBVIOUS
  <2>1. Giving(v, at, S, g[N])
    BY <1>1, <1>5 DEF Arrived, NoneFrom, R!AtEnd, Passing
  <2>2. behind(g[N]) \in Nat
    BY <2>1 DEF Giving, Standing, behind
  <2> QED
    BY <1>1, <1>5, <1>6, <2>2
<1> QED
  BY <1>5, <1>7

\* A walk stays among its walkers.
LEMMA NextWalker ==
  ASSUME NEW v, NEW at, NEW S, Reads(v, at, S), NEW first, Giving(v, at, S, first),
         NEW i \in Walkers(v, at, S, first), i # R!AtEnd(v, N)
  PROVE  Giving(v, at, S, i) /\ R!next(v, i) \in Walkers(v, at, S, first)
<1> DEFINE n == R!next(v, i)
<1>1. Giving(v, at, S, i)
  BY DEF Walkers
<1>2. NoneFrom(v, S, behind(i), n) \/ (Standing(v, at, n) /\ FirstFrom(S, behind(i), n))
  BY <1>1, NextGives DEF Giving
<1> HIDE DEF n
<1>3. CASE NoneFrom(v, S, behind(i), n)
  BY <1>1, <1>3 DEF NoneFrom, Walkers, n
<1>4. CASE Standing(v, at, n) /\ FirstFrom(S, behind(i), n)
  <2>1. S \subseteq 0 .. N - 1 /\ N \in Nat
    BY WordCodecsAssumption DEF Reads
  <2>2. n.pos < N
    BY <1>4, <2>1 DEF FirstFrom
  <2>3. Giving(v, at, S, n) /\ n.length > 0
    BY <1>4, <2>2 DEF Giving, FirstFrom
  <2>4. n \in [word : 1 .. Len(v) + 1, in : Nat, pos : Nat, length : Nat]
    BY <1>4 DEF Standing
  <2> QED
    BY <1>1, <2>3, <2>4 DEF Walkers, n
<1> QED
  BY <1>2, <1>3, <1>4

\* The walks of skip_to
LEMMA SkipWalks ==
  ASSUME NEW v, NEW at, NEW S, Reads(v, at, S), NEW to \in Nat, to < N,
         NEW first, Giving(v, at, S, first), first.length > 0
  PROVE  \E g : Walk(v, first, to, g) /\ R!skip_to(v, first, to) = R!Clip(g[N], to)
<1> DEFINE X == Walkers(v, at, S, first)
           Goes(i) == i.length > 0 /\ i.pos + i.length <= to
           Body(f) == [k \in 0 .. N |->
                         IF k = 0 THEN first
                         ELSE IF Goes(f[k - 1]) THEN R!next(v, f[k - 1]) ELSE f[k - 1]]
           g == CHOOSE f : f = Body(f)
           step == [k \in 0 .. N |-> [i \in X |-> IF Goes(i) THEN R!next(v, i) ELSE i]]
<1>1. N \in Nat
  BY WordCodecsAssumption
<1>2. R!skip_to(v, first, to) = R!Clip(g[N], to)
  BY <1>1 DEF R!skip_to
<1>3. first \in X
  BY DEF Walkers
<1>4. \A i \in X : Goes(i) => R!next(v, i) \in X
  <2> TAKE i \in X
  <2> HAVE Goes(i)
  <2>1. i # R!AtEnd(v, N)
    BY DEF R!AtEnd
  <2> QED
    BY <2>1, NextWalker
<1>5. \A i \in X : Goes(i) <=> Passing(to, i)
  <2> TAKE i \in X
  <2>1. CASE i = R!AtEnd(v, N)
    BY <1>1, <2>1 DEF R!AtEnd, Passing
  <2>2. CASE i # R!AtEnd(v, N)
    <3>1. Giving(v, at, S, i) /\ i.length > 0
      BY <2>2 DEF Walkers
    <3> QED
      BY <3>1 DEF Passing, Giving
  <2> QED
    BY <2>1, <2>2
<1> HIDE DEF X, Goes
<1>6. step \in Steps(0, N, X)
  <2>1. \A k \in 0 .. N : step[k] \in [X -> X]
    BY <1>4
  <2> QED
    BY <2>1 DEF Steps
<1>7. PICK f \in [0 .. N -> X] : FollowsUp(f, 0, N, first, step)
  <2> HIDE DEF step
  <2> QED
    BY <1>1, <1>3, <1>6, FunctionUp
<1>8. \A k \in 0 .. N : k # 0 => k - 1 \in 0 .. N
  BY <1>1
<1>9. f = Body(f)
  <2>1. \A k \in 0 .. N : f[k] = IF k = 0 THEN first ELSE step[k][f[k - 1]]
    BY <1>7 DEF FollowsUp
  <2>2. \A k \in 0 .. N : k # 0 =>
          step[k][f[k - 1]] = IF Goes(f[k - 1]) THEN R!next(v, f[k - 1]) ELSE f[k - 1]
    BY <1>7, <1>8
  <2> HIDE DEF step
  <2>3. \A k \in 0 .. N : f[k] = Body(f)[k]
    BY <2>1, <2>2
  <2> QED
    BY <1>7, <2>3
<1>10. g = Body(g)
  BY <1>9
<1> HIDE DEF g, step
<1>11. g[0] = first /\ \A k \in 1 .. N : g[k] = IF Goes(g[k - 1]) THEN R!next(v, g[k - 1]) ELSE g[k - 1]
  <2> DEFINE b == Body(g)
  <2>1. b[0] = first /\ \A k \in 1 .. N : b[k] = IF Goes(g[k - 1]) THEN R!next(v, g[k - 1]) ELSE g[k - 1]
    BY <1>1
  <2>2. g = b
    BY <1>10
  <2> HIDE DEF b
  <2> QED
    BY <2>1, <2>2
<1> DEFINE T == {k \in 0 .. N : g[k] \in X}
<1>12. \A k \in 0 .. N : g[k] \in X
  <2>1. 0 \in T
    BY <1>1, <1>3, <1>11
  <2>2. \A k \in 0 .. N - 1 : k \in T => k + 1 \in T
    <3> TAKE k \in 0 .. N - 1
    <3>1. k + 1 \in 1 .. N /\ k + 1 \in 0 .. N /\ (k + 1) - 1 = k
      BY <1>1
    <3>2. g[k + 1] = IF Goes(g[k]) THEN R!next(v, g[k]) ELSE g[k]
      BY <1>11, <3>1
    <3> QED
      BY <1>4, <3>1, <3>2
  <2> HIDE DEF T
  <2>3. 0 .. N \subseteq T
    BY <1>1, <2>1, <2>2, ReachedUp
  <2> QED
    BY <2>3 DEF T
<1>13. \A k \in 1 .. N : k - 1 \in 0 .. N
  BY <1>1
<1>14. Walk(v, first, to, g)
  BY <1>5, <1>11, <1>12, <1>13 DEF Walk
<1> QED
  BY <1>2, <1>14

\* Where a walk by the index begins: before the indexed word
Indicated(v, to) ==
  LET j == R!Entry(R!init_skip_offsets(v), to)
  IN  [word |-> j * SkipDistance + 1, in |-> 0, pos |-> R!init_skip_offsets(v)[j], length |-> 0]

\* The walks of skip_to() by the index
LEMMA IndexWalks ==
  ASSUME NEW v, NEW at, NEW S, Reads(v, at, S), NEW to \in Nat, to < N, NEW it_,
         NEW first, first = Indicated(v, to), Giving(v, at, S, first)
  PROVE  \E g : /\ Walk(v, first, to, g)
               /\ R!skip_by_index(v, R!init_skip_offsets(v), it_, to) = R!Clip(g[N], to)
<1> DEFINE X == Walkers(v, at, S, first)
           Goes(i) == i.pos < N /\ i.pos + i.length <= to
           Body(f) == [k \in 0 .. N |->
                         IF k = 0 THEN first
                         ELSE IF Goes(f[k - 1]) THEN R!next(v, f[k - 1]) ELSE f[k - 1]]
           g == CHOOSE f : f = Body(f)
           step == [k \in 0 .. N |-> [i \in X |-> IF Goes(i) THEN R!next(v, i) ELSE i]]
<1>1. N \in Nat
  BY WordCodecsAssumption
<1>2. R!skip_by_index(v, R!init_skip_offsets(v), it_, to) = R!Clip(g[N], to)
  BY <1>1 DEF R!skip_by_index, Indicated
<1>3. first \in X
  BY DEF Walkers
<1>4. \A i \in X : Goes(i) => R!next(v, i) \in X
  <2> TAKE i \in X
  <2> HAVE Goes(i)
  <2>1. i # R!AtEnd(v, N)
    BY <1>1 DEF R!AtEnd
  <2> QED
    BY <2>1, NextWalker
<1>5. \A i \in X : Goes(i) <=> Passing(to, i)
  BY DEF Passing
<1> HIDE DEF X, Goes
<1>6. step \in Steps(0, N, X)
  <2>1. \A k \in 0 .. N : step[k] \in [X -> X]
    BY <1>4
  <2> QED
    BY <2>1 DEF Steps
<1>7. PICK f \in [0 .. N -> X] : FollowsUp(f, 0, N, first, step)
  <2> HIDE DEF step
  <2> QED
    BY <1>1, <1>3, <1>6, FunctionUp
<1>8. \A k \in 0 .. N : k # 0 => k - 1 \in 0 .. N
  BY <1>1
<1>9. f = Body(f)
  <2>1. \A k \in 0 .. N : f[k] = IF k = 0 THEN first ELSE step[k][f[k - 1]]
    BY <1>7 DEF FollowsUp
  <2>2. \A k \in 0 .. N : k # 0 =>
          step[k][f[k - 1]] = IF Goes(f[k - 1]) THEN R!next(v, f[k - 1]) ELSE f[k - 1]
    BY <1>7, <1>8
  <2> HIDE DEF step
  <2>3. \A k \in 0 .. N : f[k] = Body(f)[k]
    BY <2>1, <2>2
  <2> QED
    BY <1>7, <2>3
<1>10. g = Body(g)
  BY <1>9
<1> HIDE DEF g, step
<1>11. g[0] = first /\ \A k \in 1 .. N : g[k] = IF Goes(g[k - 1]) THEN R!next(v, g[k - 1]) ELSE g[k - 1]
  <2> DEFINE b == Body(g)
  <2>1. b[0] = first /\ \A k \in 1 .. N : b[k] = IF Goes(g[k - 1]) THEN R!next(v, g[k - 1]) ELSE g[k - 1]
    BY <1>1
  <2>2. g = b
    BY <1>10
  <2> HIDE DEF b
  <2> QED
    BY <2>1, <2>2
<1> DEFINE T == {k \in 0 .. N : g[k] \in X}
<1>12. \A k \in 0 .. N : g[k] \in X
  <2>1. 0 \in T
    BY <1>1, <1>3, <1>11
  <2>2. \A k \in 0 .. N - 1 : k \in T => k + 1 \in T
    <3> TAKE k \in 0 .. N - 1
    <3>1. k + 1 \in 1 .. N /\ k + 1 \in 0 .. N /\ (k + 1) - 1 = k
      BY <1>1
    <3>2. g[k + 1] = IF Goes(g[k]) THEN R!next(v, g[k]) ELSE g[k]
      BY <1>11, <3>1
    <3> QED
      BY <1>4, <3>1, <3>2
  <2> HIDE DEF T
  <2>3. 0 .. N \subseteq T
    BY <1>1, <2>1, <2>2, ReachedUp
  <2> QED
    BY <2>3 DEF T
<1>13. \A k \in 1 .. N : k - 1 \in 0 .. N
  BY <1>1
<1>14. Walk(v, first, to, g)
  BY <1>5, <1>11, <1>12, <1>13 DEF Walk
<1> QED
  BY <1>2, <1>14

\* The iterator is at its end, and there is none.
Over(S, p, i) == i.length = 0 /\ i.pos = N /\ \A x \in S : ~(x >= p)

\* The part of a run from a position on
LEMMA ClipGives ==
  ASSUME NEW v, NEW at, NEW S, Reads(v, at, S), NEW to \in Nat, to < N,
         NEW i, Arrived(v, at, S, to, i), ~Passing(to, i)
  PROVE  \/ Over(S, to, R!Clip(i, to))
         \/ Standing(v, at, R!Clip(i, to)) /\ FirstFrom(S, to, R!Clip(i, to))
<1>1. N \in Nat
  BY WordCodecsAssumption
<1>2. CASE NoneFrom(v, S, to, i)
  BY <1>2 DEF NoneFrom, R!AtEnd, Over, R!Clip
<1>3. CASE ~NoneFrom(v, S, to, i)
  <2>1. /\ Giving(v, at, S, i) /\ Standing(v, at, i)
        /\ i \in [word : 1 .. Len(v) + 1, in : Nat, pos : Nat, length : Nat]
        /\ i.pos .. i.pos + i.length - 1 \subseteq S
        /\ \A x \in S : x >= to => x >= i.pos
    BY <1>3 DEF Arrived, Giving, Standing
  <2>2. i.pos \in Nat /\ i.length \in Nat /\ i.pos + i.length > to
    BY <2>1 DEF Passing, Giving
  <2>3. i.length > 0
    BY <1>3, <2>2 DEF Arrived
  <2>4. CASE i.pos < to
    <3> DEFINE c == [i EXCEPT !.pos = to, !.length = @ - (to - i.pos)]
    <3>1. R!Clip(i, to) = c
      BY <2>3, <2>4 DEF R!Clip
    <3>2. /\ c \in [word : 1 .. Len(v) + 1, in : Nat, pos : Nat, length : Nat]
          /\ c.pos = to /\ c.length = i.length - (to - i.pos) /\ c.word = i.word /\ c.in = i.in
      <4>1. PICK d \in Nat : d = i.length - (to - i.pos)
        BY <2>2, <2>4
      <4>2. c = [i EXCEPT !.pos = to, !.length = d]
        BY <4>1
      <4> HIDE DEF c
      <4> QED
        BY <2>1, <4>1, <4>2
    <3> HIDE DEF c
    <3>3. c.pos + c.length = i.pos + i.length /\ c.length > 0 /\ c.length \in Nat
      BY <2>2, <2>4, <3>2
    <3>4. Standing(v, at, c)
      BY <2>1, <3>2, <3>3 DEF Standing
    <3>5. c.pos .. c.pos + c.length - 1 \subseteq i.pos .. i.pos + i.length - 1
      BY <2>2, <2>4, <3>2, <3>3
    <3>6. to \in i.pos .. i.pos + i.length - 1
      BY <2>2, <2>4
    <3>7. FirstFrom(S, to, c)
      BY <2>1, <3>2, <3>3, <3>5, <3>6 DEF FirstFrom
    <3> QED
      BY <3>1, <3>4, <3>7
  <2>5. CASE ~(i.pos < to)
    <3>1. R!Clip(i, to) = i
      BY <2>5 DEF R!Clip
    <3>2. i.pos \in i.pos .. i.pos + i.length - 1
      BY <2>2, <2>3
    <3>3. FirstFrom(S, to, i)
      BY <2>1, <2>2, <2>3, <2>5, <3>2 DEF FirstFrom
    <3> QED
      BY <2>1, <3>1, <3>3
  <2> QED
    BY <2>4, <2>5
<1> QED
  BY <1>2, <1>3

\* skip_to() gives the first bits from the position on.
LEMMA SkipGives ==
  ASSUME NEW v, NEW at, NEW S, Reads(v, at, S), NEW i, Giving(v, at, S, i), i.length > 0,
         NEW to \in Nat, i.pos <= to, to <= N
  PROVE  \/ Over(S, to, R!skip_to(v, i, to))
         \/ Standing(v, at, R!skip_to(v, i, to)) /\ FirstFrom(S, to, R!skip_to(v, i, to))
<1>1. N \in Nat /\ S \subseteq 0 .. N - 1
  BY WordCodecsAssumption DEF Reads
<1>2. CASE to < N
  <2>1. PICK g : Walk(v, i, to, g) /\ R!skip_to(v, i, to) = R!Clip(g[N], to)
    BY <1>2, SkipWalks
  <2>2. Arrived(v, at, S, to, g[N]) /\ ~Passing(to, g[N])
    BY <1>2, <2>1, WalkArrives
  <2> QED
    BY <1>2, <2>1, <2>2, ClipGives
<1>3. CASE to = N
  <2>1. R!skip_to(v, i, to) = [i EXCEPT !.pos = N, !.length = 0]
    BY <1>1, <1>3 DEF R!skip_to, R!Exhausted
  <2>2. i \in [word : 1 .. Len(v) + 1, in : Nat, pos : Nat, length : Nat]
    BY DEF Giving, Standing
  <2>3. \A x \in S : ~(x >= to)
    BY <1>1, <1>3
  <2> QED
    BY <2>1, <2>2, <2>3 DEF Over
<1> QED
  BY <1>1, <1>2, <1>3

\* So does skip_to() by the index.
LEMMA IndexSkipGives ==
  ASSUME NEW v, NEW at, NEW S, Reads(v, at, S), NEW i, Giving(v, at, S, i),
         NEW to \in Nat, to <= N
  PROVE  LET n == R!skip_by_index(v, R!init_skip_offsets(v), i, to)
         IN  Over(S, to, n) \/ (Standing(v, at, n) /\ FirstFrom(S, to, n))
<1> DEFINE n == R!skip_by_index(v, R!init_skip_offsets(v), i, to)
<1>1. N \in Nat /\ S \subseteq 0 .. N - 1
  BY WordCodecsAssumption DEF Reads
<1>2. CASE to < N
  <2> DEFINE j == R!Entry(R!init_skip_offsets(v), to)
             offset == R!init_skip_offsets(v)[j]
             first == Indicated(v, to)
  <2>1. Placed(v, at, S) /\ Len(v) \in Nat /\ at \in [1 .. Len(v) + 1 -> Nat]
    BY DEF Reads, Placed
  <2>2. Indexed(v, j) /\ offset = at[j * SkipDistance + 1] /\ offset <= to
    BY <2>1, EntryRight
  <2>3. first = [word |-> j * SkipDistance + 1, in |-> 0, pos |-> offset, length |-> 0]
    BY DEF Indicated
  <2> HIDE DEF j, offset, first
  <2>4. PICK w \in 1 .. Len(v) + 1 : w = j * SkipDistance + 1
    BY <2>2 DEF Indexed
  <2>5. /\ first = [word |-> w, in |-> 0, pos |-> offset, length |-> 0]
        /\ offset \in Nat /\ offset = at[w]
    BY <2>1, <2>2, <2>3, <2>4
  <2>6. Standing(v, at, first)
    <3>1. w <= Len(v) => v[w].size >= 0
      <4>1. \A k \in 1 .. Len(v) : v[k].size \in Nat
        BY <2>1, WordPlace
      <4> QED
        BY <2>1, <4>1
    <3> QED
      BY <2>5, <3>1 DEF Standing
  <2>7. Giving(v, at, S, first) /\ first.pos <= to
    <3>1. first.pos = offset /\ first.length = 0
      BY <2>5
    <3>2. first.pos .. first.pos + first.length - 1 = {}
      BY <2>5, <3>1
    <3> QED
      BY <1>1, <1>2, <2>2, <2>5, <2>6, <3>1, <3>2 DEF Giving
  <2>8. first = Indicated(v, to)
    BY DEF first
  <2>9. PICK g : Walk(v, first, to, g) /\ n = R!Clip(g[N], to)
    <3> HIDE DEF n
    <3>1. \E g : Walk(v, first, to, g) /\ R!skip_by_index(v, R!init_skip_offsets(v), i, to) = R!Clip(g[N], to)
      BY <1>2, <2>7, <2>8, IndexWalks
    <3> QED
      BY <3>1 DEF n
  <2> HIDE DEF n
  <2>10. Arrived(v, at, S, to, g[N]) /\ ~Passing(to, g[N])
    BY <1>2, <2>7, <2>9, WalkArrives
  <2>11. Over(S, to, R!Clip(g[N], to))
         \/ (Standing(v, at, R!Clip(g[N], to)) /\ FirstFrom(S, to, R!Clip(g[N], to)))
    BY <1>2, <2>10, ClipGives
  <2> QED
    BY <2>9, <2>11 DEF n
<1>3. CASE to = N
  <2>1. n = [i EXCEPT !.pos = N, !.length = 0]
    BY <1>1, <1>3 DEF R!skip_by_index, R!Exhausted
  <2>2. i \in [word : 1 .. Len(v) + 1, in : Nat, pos : Nat, length : Nat]
    BY DEF Giving, Standing
  <2>3. \A x \in S : ~(x >= to)
    BY <1>1, <1>3
  <2> QED
    BY <2>1, <2>2, <2>3 DEF Over
<1> QED
  BY <1>1, <1>2, <1>3

-----------------------------------------------------------------------------
\* next() of concise stays behind the last word.
LEMMA ConciseNextGives ==
  ASSUME NEW v, NEW at, NEW S, Reads(v, at, S), NEW i, Standing(v, at, i)
  PROVE  LET n == Concise!concise_next(v, i)
         IN  \/ n.length = 0 /\ n.pos \in Nat /\ \A x \in S : ~(x >= behind(i))
             \/ Standing(v, at, n) /\ FirstFrom(S, behind(i), n)
<1> DEFINE m == R!next(v, i)
           n == Concise!concise_next(v, i)
<1>1. Concise!next(v, i) = m
  BY DEF R!next, R!Begins, R!AtEnd, R!Min, Concise!next, Concise!Begins, Concise!AtEnd, Concise!Min
<1>2. Concise!Begins(v, 1, 0)[Len(v) + 1] \in Nat
  <2>1. Placed(v, at, S) /\ Len(v) \in Nat /\ at \in [1 .. Len(v) + 1 -> Nat] /\ at[1] = 0
    BY DEF Reads, Placed
  <2>2. 1 \in 1 .. Len(v) + 1 /\ Len(v) + 1 \in 1 .. Len(v) + 1
    BY <2>1
  <2>3. R!Begins(v, 1, at[1])[Len(v) + 1] = at[Len(v) + 1]
    BY <2>1, <2>2, BeginsAre
  <2>4. Concise!Begins(v, 1, 0) = R!Begins(v, 1, 0)
    BY DEF Concise!Begins, R!Begins
  <2> QED
    BY <2>1, <2>2, <2>3, <2>4
<1>3. NoneFrom(v, S, behind(i), m) \/ (Standing(v, at, m) /\ FirstFrom(S, behind(i), m))
  BY NextGives
<1> HIDE DEF m
<1>4. n = IF m.length = 0 THEN [m EXCEPT !.pos = Concise!Begins(v, 1, 0)[Len(v) + 1]] ELSE m
  BY <1>1 DEF Concise!concise_next
<1> HIDE DEF n
<1>5. CASE NoneFrom(v, S, behind(i), m)
  <2> DEFINE p == Concise!Begins(v, 1, 0)[Len(v) + 1]
  <2>1. m = [word |-> Len(v) + 1, in |-> 0, pos |-> N, length |-> 0]
    BY <1>5 DEF NoneFrom, R!AtEnd
  <2>2. n = [m EXCEPT !.pos = p]
    BY <1>4, <2>1
  <2> HIDE DEF p
  <2>3. n.pos = p /\ n.length = 0
    BY <2>1, <2>2
  <2> QED
    BY <1>2, <1>5, <2>3 DEF NoneFrom, n, p
<1>6. CASE Standing(v, at, m) /\ FirstFrom(S, behind(i), m)
  <2>1. n = m
    BY <1>4, <1>6 DEF FirstFrom
  <2> QED
    BY <1>6, <2>1 DEF n
<1> QED
  BY <1>3, <1>5, <1>6

-----------------------------------------------------------------------------
\* The words are within what their bits can hold.
WordsOK(c, e) ==
  /\ c \in {"xah", "xah_skip"} => \A k \in DOMAIN e.words : Xah!WordOK(e.words[k])
  /\ c \in {"uah", "uah_skip"} => \A k \in DOMAIN e.words : Uah!WordOK(e.words[k])
  /\ c = "concise" => \A k \in DOMAIN e : Concise!WordOK(e[k])
  /\ c = "bah" => \A k \in DOMAIN e.main : Bah!WordOK(e.main[k])

OnesOf(b) == {i \in R!Pos : b[i]}

\* What an encoder owes to the readers
Sound(c, b) ==
  LET e == Encode(c, b)
  IN  /\ WordsOK(c, e)
      /\ c \in Counting => e.length = N
      /\ \E at : Reads(View(c, e), at, OnesOf(b))

Encoders(kinds) == \A c \in kinds, b \in Bitmaps(MaxRuns) : Sound(c, b)

\* The iterator is at its end (concise behind its last word), or it gives the
\* first bits that the client has not passed.
OnItsWay(at) ==
  LET S == OnesOf(bits)
  IN  \/ /\ it.length = 0 /\ it.pos \in Nat /\ (codec # "concise" => it.pos = N)
         /\ \A x \in S : ~(x >= from)
      \/ Standing(view, at, it) /\ FirstFrom(S, from, it)

ReaderInv ==
  /\ codec \in Kinds
  /\ bits \in Bitmaps(MaxRuns)
  /\ encoded = Encode(codec, bits)
  /\ view = View(codec, encoded)
  /\ from \in 0 .. N
  /\ \E at : Reads(view, at, OnesOf(bits)) /\ OnItsWay(at)

\* A reader begins so.
LEMMA ReaderInit ==
  ASSUME Encoders(Kinds), InitWords
  PROVE  ReaderInv
<1> DEFINE S == OnesOf(bits)
<1>1. PICK at : Reads(view, at, S)
  BY DEF Encoders, InitWords, Sound
<1>2. Placed(view, at, S) /\ Len(view) \in Nat /\ at \in [1 .. Len(view) + 1 -> Nat] /\ at[1] = 0
  BY <1>1 DEF Reads, Placed
<1>3. N \in Nat /\ S \subseteq 0 .. N - 1
  BY <1>1, WordCodecsAssumption DEF Reads
<1>4. Standing(view, at, R!Start) /\ behind(R!Start) = 0
  <2>1. 1 \in 1 .. Len(view) + 1
    BY <1>2
  <2>2. 1 <= Len(view) => view[1].size >= 0
    <3>1. \A k \in 1 .. Len(view) : view[k].size \in Nat
      BY <1>2, WordPlace
    <3> QED
      BY <1>2, <3>1
  <2> QED
    BY <1>2, <2>1, <2>2 DEF Standing, R!Start, behind
<1>5. \/ NoneFrom(view, S, 0, it)
      \/ Standing(view, at, it) /\ FirstFrom(S, 0, it)
  <2>1. it = R!next(view, R!Start)
    BY DEF InitWords
  <2> HIDE DEF S
  <2> QED
    BY <1>1, <1>4, <2>1, NextGives
<1>6. from = 0
  BY DEF InitWords
<1>7. OnItsWay(at)
  BY <1>3, <1>5, <1>6 DEF OnItsWay, NoneFrom, R!AtEnd
<1> QED
  BY <1>1, <1>3, <1>6, <1>7 DEF InitWords, ReaderInv

\* An iterator that is not at its end gives bits.
LEMMA NotAtEnd ==
  ASSUME NEW at, Reads(view, at, OnesOf(bits)), OnItsWay(at), ~end
  PROVE  /\ Giving(view, at, OnesOf(bits), it) /\ it.length > 0
         /\ it.pos \in Nat /\ it.length \in Nat /\ behind(it) \in 0 .. N
<1> DEFINE S == OnesOf(bits)
<1>1. N \in Nat /\ S \subseteq 0 .. N - 1
  BY WordCodecsAssumption DEF Reads
<1>2. Standing(view, at, it) /\ FirstFrom(S, from, it)
  <2>1. codec \in Skipping => codec # "concise"
    BY DEF Skipping
  <2> QED
    BY <1>1, <2>1 DEF OnItsWay, end
<1>3. /\ it.pos \in Nat /\ it.length \in Nat /\ it.length > 0 /\ it.pos \in S
      /\ it.pos .. it.pos + it.length - 1 \subseteq S
  BY <1>2 DEF FirstFrom
<1> HIDE DEF S
<1>4. it.pos < N
  BY <1>1, <1>3
<1>5. it.pos + it.length - 1 \in it.pos .. it.pos + it.length - 1
  BY <1>3
<1>6. it.pos + it.length - 1 \in 0 .. N - 1
  BY <1>1, <1>3, <1>5
<1>7. it.pos + it.length \in 0 .. N
  BY <1>1, <1>3, <1>6
<1> QED
  BY <1>2, <1>3, <1>4, <1>7 DEF Giving, behind, S

\* next() keeps the promise.
LEMMA ReaderAdvance ==
  ASSUME ReaderInv, Advance
  PROVE  ReaderInv'
<1> DEFINE S == OnesOf(bits)
<1>1. PICK at : Reads(view, at, S) /\ OnItsWay(at)
  BY DEF ReaderInv
<1>2. /\ it' = next /\ from' = behind(it) /\ ~end
      /\ codec' = codec /\ bits' = bits /\ encoded' = encoded /\ view' = view
  BY DEF Advance, behind
<1>3. Giving(view, at, S, it) /\ behind(it) \in 0 .. N /\ Standing(view, at, it)
  BY <1>1, <1>2, NotAtEnd DEF Giving
<1>4. OnItsWay(at)'
  <2>1. CASE codec = "concise"
    <3>1. it' = Concise!concise_next(view, it)
      BY <1>2, <2>1 DEF next
    <3>2. \/ it'.length = 0 /\ it'.pos \in Nat /\ \A x \in S : ~(x >= behind(it))
          \/ Standing(view, at, it') /\ FirstFrom(S, behind(it), it')
      <4> HIDE DEF S
      <4> QED
        BY <1>1, <1>3, <3>1, ConciseNextGives
    <3> QED
      BY <1>2, <2>1, <3>2 DEF OnItsWay
  <2>2. CASE codec # "concise"
    <3>1. it' = R!next(view, it)
      BY <1>2, <2>2 DEF next
    <3>2. \/ NoneFrom(view, S, behind(it), it')
          \/ Standing(view, at, it') /\ FirstFrom(S, behind(it), it')
      <4> HIDE DEF S
      <4> QED
        BY <1>1, <1>3, <3>1, NextGives
    <3>3. N \in Nat
      BY WordCodecsAssumption
    <3> QED
      BY <1>2, <2>2, <3>2, <3>3 DEF OnItsWay, NoneFrom, R!AtEnd
  <2> QED
    BY <2>1, <2>2
<1>5. Reads(view', at, OnesOf(bits'))
  BY <1>1, <1>2
<1> QED
  BY <1>2, <1>3, <1>4, <1>5 DEF ReaderInv

\* skip_to() keeps it.
LEMMA ReaderSkip ==
  ASSUME ReaderInv, Skip
  PROVE  ReaderInv'
<1> DEFINE S == OnesOf(bits)
<1>1. PICK at : Reads(view, at, S) /\ OnItsWay(at)
  BY DEF ReaderInv
<1>2. /\ ~end
      /\ codec' = codec /\ bits' = bits /\ encoded' = encoded /\ view' = view
  BY DEF Skip
<1>3. PICK to \in it.pos .. N : it' = skip_to(to) /\ from' = to
  BY DEF Skip
<1>4. Giving(view, at, S, it) /\ it.length > 0 /\ it.pos \in Nat
  BY <1>1, <1>2, NotAtEnd
<1>5. to \in Nat /\ it.pos <= to /\ to <= N /\ to \in 0 .. N /\ N \in Nat
  BY <1>3, <1>4, WordCodecsAssumption
<1>6. Over(S, to, it') \/ (Standing(view, at, it') /\ FirstFrom(S, to, it'))
  <2> HIDE DEF S
  <2>1. CASE codec \in Skipping
    <3>1. it' = R!skip_by_index(view, R!init_skip_offsets(view), it, to)
      BY <1>3, <2>1 DEF skip_to, offsets
    <3> QED
      BY <1>1, <1>4, <1>5, <3>1, IndexSkipGives
  <2>2. CASE codec \notin Skipping
    <3>1. it' = R!skip_to(view, it, to)
      BY <1>3, <2>2 DEF skip_to
    <3> QED
      BY <1>1, <1>4, <1>5, <3>1, SkipGives
  <2> QED
    BY <2>1, <2>2
<1>7. OnItsWay(at)'
  BY <1>2, <1>3, <1>5, <1>6 DEF OnItsWay, Over
<1>8. Reads(view', at, OnesOf(bits'))
  BY <1>1, <1>2
<1> QED
  BY <1>2, <1>3, <1>5, <1>7, <1>8 DEF ReaderInv

-----------------------------------------------------------------------------
\* The one word that has a position
LEMMA OneWord ==
  ASSUME NEW v, NEW at, NEW S, Placed(v, at, S), NEW p \in Nat,
         NEW j \in 1 .. Len(v), NEW k \in 1 .. Len(v),
         at[j] <= p, p < at[j + 1], at[k] <= p, p < at[k + 1]
  PROVE  j = k
<1>1. Len(v) \in Nat
  BY DEF Placed
<1>2. \A x, y \in 1 .. Len(v) : x < y => at[x + 1] <= at[y]
  <2> TAKE x, y \in 1 .. Len(v)
  <2> HAVE x < y
  <2>1. x + 1 \in 1 .. Len(v) + 1 /\ y \in 1 .. Len(v) + 1 /\ x + 1 <= y
    BY <1>1
  <2> QED
    BY <2>1, PlaceOrder
<1>3. at[j] \in Nat /\ at[k] \in Nat /\ at[j + 1] \in Nat /\ at[k + 1] \in Nat
  BY WordPlace
<1>4. ~(j < k)
  <2> SUFFICES ASSUME j < k PROVE FALSE
    OBVIOUS
  <2>1. at[j + 1] <= at[k]
    BY <1>2
  <2> QED
    BY <1>3, <2>1
<1>5. ~(k < j)
  <2> SUFFICES ASSUME k < j PROVE FALSE
    OBVIOUS
  <2>1. at[k + 1] <= at[j]
    BY <1>2
  <2> QED
    BY <1>3, <2>1
<1> QED
  BY <1>1, <1>4, <1>5

\* The bits of a word of concise, as next() and as test() see them
DirtyOnce(w) ==
  IF ~w.fill THEN w.ones
  ELSE IF w.val THEN (0 .. Concise!Size(w) - 1) \ w.dirty ELSE w.dirty

DirtyEverywhere(w) ==
  LET dirty == {i \in 0 .. Concise!Size(w) - 1 : (i % Concise!payload_bit_cnt) \in w.dirty}
  IN  IF ~w.fill THEN w.ones
      ELSE IF w.val THEN (0 .. Concise!Size(w) - 1) \ dirty ELSE dirty

Repeats(w, d) ==
  w.fill /\ d >= Concise!payload_bit_cnt /\ d % Concise!payload_bit_cnt \in w.dirty

\* A bit of a CONCISE word is where its dirty bits say, except that the test
\* takes the dirty bit of the first block for one of every block of a fill.
LEMMA DirtyBit ==
  ASSUME NEW w, Concise!WordOK(w), NEW d \in Nat,
         d \in 0 .. Concise!Size(w) - 1
  PROVE  d \in DirtyOnce(w) <=> \/ d \in DirtyEverywhere(w) /\ ~Repeats(w, d)
                                \/ Repeats(w, d) /\ d \notin DirtyEverywhere(w)
<1> DEFINE P == Concise!payload_bit_cnt
           size == Concise!Size(w)
<1>1. P \in Nat /\ P > 0
  BY WordCodecsAssumption DEF Concise!payload_bit_cnt
<1>2. d < P => d % P = d
  <2> SUFFICES ASSUME d < P PROVE d % P = d
    OBVIOUS
  <2>1. PICK q \in Nat : q = P
    BY <1>1
  <2>2. d \in 0 .. q - 1 /\ 0 \in Nat /\ q > 0
    BY <1>1, <2>1
  <2>3. (q * 0 + d) % q = d
    BY <2>2, PlaceInBlock
  <2>4. q * 0 + d = d
    OBVIOUS
  <2> QED
    BY <2>1, <2>3, <2>4
<1>3. CASE ~w.fill
  BY <1>3 DEF DirtyOnce, DirtyEverywhere, Repeats
<1>4. CASE w.fill
  <2>1. w.dirty \subseteq 0 .. P - 1
    BY <1>4 DEF Concise!WordOK, Concise!Block
  <2>2. d \in w.dirty => d < P
    BY <1>1, <2>1
  <2>3. d >= P <=> ~(d < P)
    BY <1>1
  <2> HIDE DEF P, size
  <2>4. CASE w.val
    BY <1>2, <1>4, <2>2, <2>3, <2>4 DEF P, size, DirtyOnce, DirtyEverywhere, Repeats
  <2>5. CASE ~w.val
    BY <1>2, <1>4, <2>2, <2>3, <2>5 DEF P, size, DirtyOnce, DirtyEverywhere, Repeats
  <2> QED
    BY <2>4, <2>5
<1> QED
  BY <1>3, <1>4

\* test() of concise is right but for the dirty bits it repeats.
LEMMA ConciseTestRight ==
  ASSUME NEW e, NEW at, NEW S, Reads(Concise!View(e), at, S), NEW p \in Nat,
         \A k \in DOMAIN e : Concise!WordOK(e[k])
  PROVE  LET B   == R!Begins(Concise!View(e), 1, 0)
             P   == Concise!payload_bit_cnt
             rep == \E k \in DOMAIN e : /\ e[k].fill
                                        /\ B[k] + P <= p /\ p < B[k + 1]
                                        /\ ((p - B[k]) % P) \in e[k].dirty
             seen == R!test(Concise!TestView(e), p)
         IN  p \in S <=> ((seen /\ ~rep) \/ (rep /\ ~seen))
<1> DEFINE v == Concise!View(e)
           t == Concise!TestView(e)
           B == R!Begins(v, 1, 0)
           P == Concise!payload_bit_cnt
           rep == \E k \in DOMAIN e : /\ e[k].fill
                                      /\ B[k] + P <= p /\ p < B[k + 1]
                                      /\ ((p - B[k]) % P) \in e[k].dirty
           seen == R!test(t, p)
           Here(k) == at[k] <= p /\ p < at[k + 1]
           Rep(k) == Repeats(e[k], p - at[k])
<1>1. Placed(v, at, S) /\ at[1] = 0 /\ at \in [1 .. Len(v) + 1 -> Nat] /\ \A x \in S : x < at[Len(v) + 1]
  BY DEF Reads, Placed
<1>2. /\ Len(v) \in Nat /\ DOMAIN v = 1 .. Len(v)
      /\ \A k \in 1 .. Len(v) :
           /\ v[k].size \in Nat /\ at[k] \in Nat /\ at[k + 1] \in Nat
           /\ at[k + 1] = at[k] + v[k].size
           /\ v[k].ones = {x \in 0 .. v[k].size - 1 : at[k] + x \in S}
  BY <1>1, WordPlace
<1>3. DOMAIN e = 1 .. Len(v) /\ DOMAIN t = 1 .. Len(v)
  BY <1>2 DEF Concise!View, Concise!TestView
<1>4. Len(t) = Len(v)
  BY <1>2, <1>3
<1>5. \A k \in 1 .. Len(v) :
        /\ v[k].size = Concise!Size(e[k]) /\ t[k].size = Concise!Size(e[k])
        /\ v[k].ones = DirtyOnce(e[k]) /\ t[k].ones = DirtyEverywhere(e[k])
  BY <1>3 DEF Concise!View, Concise!TestView, DirtyOnce, DirtyEverywhere
<1>6. P \in Nat
  BY WordCodecsAssumption DEF Concise!payload_bit_cnt
<1> HIDE DEF v, t, P
<1>7. \A k \in 1 .. Len(v) + 1 : B[k] = at[k]
  <2>1. 1 \in 1 .. Len(v) + 1
    BY <1>2
  <2> QED
    BY <1>1, <2>1, BeginsAre
<1>8. R!Begins(t, 1, 0) = B
  <2> DEFINE One(f) == [k \in 1 .. Len(v) + 1 |-> IF k = 1 THEN 0 ELSE f[k - 1] + v[k - 1].size]
             Two(f) == [k \in 1 .. Len(v) + 1 |-> IF k = 1 THEN 0 ELSE f[k - 1] + t[k - 1].size]
  <2>1. \A f : One(f) = Two(f)
    <3> TAKE f
    <3>1. \A k \in 1 .. Len(v) + 1 : k # 1 => v[k - 1].size = t[k - 1].size
      <4> TAKE k \in 1 .. Len(v) + 1
      <4>1. k # 1 => k - 1 \in 1 .. Len(v)
        BY <1>2
      <4> QED
        BY <1>5, <4>1
    <3> QED
      BY <3>1
  <2>2. B = CHOOSE f : f = One(f)
    BY DEF R!Begins
  <2>3. R!Begins(t, 1, 0) = CHOOSE f : f = Two(f)
    BY <1>4 DEF R!Begins
  <2> HIDE DEF One, Two
  <2> QED
    BY <2>1, <2>2, <2>3, Zenon
<1> HIDE DEF B
<1>9. seen <=> \E k \in 1 .. Len(v) : Here(k) /\ p - at[k] \in t[k].ones
  <2>1. seen <=> \E k \in 1 .. Len(v) : B[k] <= p /\ p < B[k + 1] /\ p - B[k] \in t[k].ones
    BY <1>4, <1>8 DEF R!test, R!TestFrom
  <2>2. \A k \in 1 .. Len(v) : k \in 1 .. Len(v) + 1 /\ k + 1 \in 1 .. Len(v) + 1
    BY <1>2
  <2> HIDE DEF seen
  <2> QED
    BY <1>7, <2>1, <2>2
<1>10. rep <=> \E k \in 1 .. Len(v) : Here(k) /\ Rep(k)
  <2>1. \A k \in 1 .. Len(v) : k \in 1 .. Len(v) + 1 /\ k + 1 \in 1 .. Len(v) + 1
    BY <1>2
  <2>2. \A k \in 1 .. Len(v) : B[k] = at[k] /\ B[k + 1] = at[k + 1] /\ at[k] \in Nat /\ at[k + 1] \in Nat
    BY <1>2, <1>7, <2>1
  <2>3. \A k \in 1 .. Len(v) :
          (B[k] + P <= p /\ p < B[k + 1]) <=> (Here(k) /\ p - at[k] >= P)
    <3>1. \A a \in Nat, z \in Nat : (a + P <= p /\ p < z) <=> ((a <= p /\ p < z) /\ p - a >= P)
      BY <1>6
    <3> QED
      BY <2>2, <3>1
  <2> QED
    BY <1>3, <2>2, <2>3 DEF Repeats, P
<1> HIDE DEF seen, rep
<1>11. ASSUME NEW k \in 1 .. Len(v), Here(k)
       PROVE  p \in S <=> ((seen /\ ~rep) \/ (rep /\ ~seen))
  <2>1. \A j \in 1 .. Len(v) : Here(j) => j = k
    BY <1>1, <1>11, OneWord
  <2>2. (seen <=> p - at[k] \in t[k].ones) /\ (rep <=> Rep(k))
    BY <1>9, <1>10, <1>11, <2>1
  <2>3. PICK d \in Nat : d = p - at[k] /\ d \in 0 .. v[k].size - 1 /\ at[k] + d = p
    <3>1. \A a \in Nat, s \in Nat : a <= p /\ p < a + s => p - a \in 0 .. s - 1 /\ a + (p - a) = p /\ p - a \in Nat
      OBVIOUS
    <3>2. /\ v[k].size \in Nat /\ at[k] \in Nat /\ at[k] <= p /\ p < at[k] + v[k].size
      BY <1>2, <1>11
    <3> QED
      BY <3>1, <3>2
  <2>4. p \in S <=> d \in v[k].ones
    BY <1>2, <2>3
  <2>5. Concise!WordOK(e[k]) /\ d \in 0 .. Concise!Size(e[k]) - 1
    BY <1>3, <1>5, <2>3
  <2>6. d \in v[k].ones <=> ((d \in t[k].ones /\ ~Rep(k)) \/ (Rep(k) /\ d \notin t[k].ones))
    BY <1>5, <2>3, <2>5, DirtyBit
  <2> QED
    BY <2>2, <2>3, <2>4, <2>6
<1>12. ASSUME \A k \in 1 .. Len(v) : ~Here(k)
       PROVE  p \in S <=> ((seen /\ ~rep) \/ (rep /\ ~seen))
  <2>1. p \notin S
    <3> SUFFICES ASSUME p \in S PROVE FALSE
      OBVIOUS
    <3>1. p < at[Len(v) + 1] /\ at[1] <= p /\ 1 \in 1 .. Len(v) + 1
      BY <1>1, <1>2
    <3>2. \E k \in 1 .. Len(v) : Here(k)
      BY <1>1, <3>1, FindWord
    <3> QED
      BY <1>12, <3>2
  <2>2. ~seen
    BY <1>9, <1>12
  <2>3. ~rep
    BY <1>10, <1>12
  <2> QED
    BY <2>1, <2>2, <2>3
<1> HIDE DEF Here
<1>13. p \in S <=> ((seen /\ ~rep) \/ (rep /\ ~seen))
  BY <1>11, <1>12
<1> QED
  BY <1>13 DEF seen, rep, B, v, t, P

-----------------------------------------------------------------------------
\* What the invariant of the readers says of each property
LEMMA ReaderTypes ==
  ASSUME Encoders(Kinds), ReaderInv
  PROVE  TypeOK
<1>1. codec \in Kinds \cup Trees /\ bits \in [R!Pos -> BOOLEAN] /\ from \in 0 .. N
  BY DEF ReaderInv, Bitmaps
<1>2. it.pos \in Nat /\ it.length \in Nat
  BY DEF ReaderInv, OnItsWay, FirstFrom
<1>3. WordsOK(codec, encoded)
  BY DEF Encoders, ReaderInv, Sound
<1> QED
  BY <1>1, <1>2, <1>3 DEF TypeOK, WordsOK

\* In a state of the reader, the words hold the bits of the bitmap and count
\* all of them.
LEMMA ReaderHolds ==
  ASSUME Encoders(Kinds), ReaderInv
  PROVE  WordsHoldBits
<1>1. R!Ones(view) = OnesOf(bits)
  BY OnesRight DEF ReaderInv
<1>2. codec \in Counting => encoded.length = N
  BY DEF Encoders, ReaderInv, Sound
<1> QED
  BY <1>1, <1>2 DEF WordsHoldBits, OnesOf

\* In a state of the reader, a test of a bit answers what the bitmap says,
\* except where CONCISE repeats a dirty bit.
LEMMA ReaderTests ==
  ASSUME Encoders(Kinds), ReaderInv
  PROVE  TestAgrees
<1> DEFINE S == OnesOf(bits)
<1>1. SUFFICES ASSUME NEW pos \in R!Pos
               PROVE  (test(pos) # (codec = "concise" /\ RepeatedDirty(pos))) <=> bits[pos]
  BY DEF TestAgrees
<1>2. PICK at : Reads(view, at, S)
  BY DEF ReaderInv
<1>3. pos \in Nat /\ (bits[pos] <=> pos \in S) /\ bits[pos] \in BOOLEAN
  BY DEF ReaderInv, Bitmaps, OnesOf, R!Pos
<1>4. CASE codec = "concise"
  <2> DEFINE rep == RepeatedDirty(pos)
             seen == R!test(Concise!TestView(encoded), pos)
  <2>1. view = Concise!View(encoded)
    BY <1>4 DEF ReaderInv, View
  <2>2. \A k \in DOMAIN encoded : Concise!WordOK(encoded[k])
    BY <1>4 DEF Encoders, ReaderInv, Sound, WordsOK
  <2>3. pos \in S <=> ((seen /\ ~rep) \/ (rep /\ ~seen))
    <3> HIDE DEF S
    <3> QED
      BY <1>2, <1>3, <2>1, <2>2, ConciseTestRight DEF RepeatedDirty
  <2>4. test(pos) = seen /\ seen \in BOOLEAN /\ rep \in BOOLEAN
    BY <1>4 DEF test, Skipping, R!test, R!TestFrom, RepeatedDirty
  <2>5. (codec = "concise" /\ RepeatedDirty(pos)) = rep
    BY <1>4, <2>4
  <2> HIDE DEF rep, seen, S
  <2>6. \A a \in BOOLEAN, b \in BOOLEAN, c \in BOOLEAN :
          (c <=> ((a /\ ~b) \/ (b /\ ~a))) => ((a # b) <=> c)
    OBVIOUS
  <2>7. bits[pos] <=> ((seen /\ ~rep) \/ (rep /\ ~seen))
    BY <1>3, <2>3
  <2>8. (seen # rep) <=> bits[pos]
    BY <1>3, <2>4, <2>6, <2>7, Zenon
  <2> QED
    BY <2>4, <2>5, <2>8
<1>5. CASE codec # "concise"
  <2>1. test(pos) <=> pos \in S
    <3> HIDE DEF S
    <3>1. CASE codec \in Skipping
      BY <1>2, <1>3, <3>1, IndexTestRight DEF test, offsets
    <3>2. CASE codec \notin Skipping
      <4>1. at[1] = 0 /\ Len(view) \in Nat
        BY <1>2 DEF Reads, Placed
      <4>2. 1 \in 1 .. Len(view) + 1 /\ at[1] <= pos
        BY <1>3, <4>1
      <4>3. R!TestFrom(view, 1, at[1], pos) <=> pos \in S
        BY <1>2, <1>3, <4>2, TestRight
      <4> QED
        BY <1>5, <3>2, <4>1, <4>3 DEF test, R!test
    <3> QED
      BY <3>1, <3>2
  <2>2. test(pos) \in BOOLEAN
    BY <1>5 DEF test, R!test, R!test_by_index, R!TestFrom
  <2> DEFINE rep == codec = "concise" /\ RepeatedDirty(pos)
  <2>3. ~rep /\ rep \in BOOLEAN
    BY <1>5
  <2> HIDE DEF S, rep
  <2>4. \A a \in BOOLEAN, b \in BOOLEAN, c \in BOOLEAN :
          (c <=> ((a /\ ~b) \/ (b /\ ~a))) => ((a # b) <=> c)
    OBVIOUS
  <2>5. bits[pos] <=> ((test(pos) /\ ~rep) \/ (rep /\ ~test(pos)))
    BY <1>3, <2>1, <2>3
  <2>6. (test(pos) # rep) <=> bits[pos]
    BY <1>3, <2>2, <2>3, <2>4, <2>5, Zenon
  <2> QED
    BY <2>6 DEF rep
<1> QED
  BY <1>4, <1>5

\* In a state of the reader, the run the iterator stands on is the next run of
\* 1-bits of the bitmap, from the place where it was.
LEMMA ReaderNext ==
  ASSUME ReaderInv
  PROVE  RunIsNext
<1> DEFINE S == OnesOf(bits)
           left == {i \in R!Pos : i >= from /\ bits[i]}
<1>1. PICK at : Reads(view, at, S) /\ OnItsWay(at)
  BY DEF ReaderInv
<1>2. N \in Nat /\ S \subseteq 0 .. N - 1
  BY <1>1, WordCodecsAssumption DEF Reads
<1>3. \A i : i \in left <=> i \in S /\ i >= from
  BY DEF OnesOf
<1>4. codec \in Skipping => codec # "concise"
  BY DEF Skipping
<1> HIDE DEF left
<1>5. CASE /\ it.length = 0 /\ (codec # "concise" => it.pos = N)
           /\ \A x \in S : ~(x >= from)
  <2>1. end
    BY <1>2, <1>4, <1>5 DEF end
  <2>2. left = {}
    BY <1>3, <1>5
  <2> QED
    BY <2>1, <2>2 DEF RunIsNext, NextRun, left
<1>6. CASE FirstFrom(S, from, it)
  <2>1. /\ it.pos \in Nat /\ it.length \in Nat /\ it.length > 0 /\ it.pos \in S /\ from <= it.pos
        /\ \A x \in S : x >= from => x >= it.pos
        /\ it.pos .. it.pos + it.length - 1 \subseteq S
    BY <1>6 DEF FirstFrom
  <2>2. from \in Nat
    BY DEF ReaderInv
  <2> HIDE DEF S
  <2>3. ~end
    BY <1>2, <2>1 DEF end
  <2>4. it.pos \in left /\ \A x \in left : it.pos <= x
    BY <1>2, <1>3, <2>1, <2>2
  <2>5. it.pos = Min(left)
    <3>0. \A x \in S : x \in Nat
      BY <1>2
    <3>1. \A x \in left : x \in Nat
      BY <1>3, <3>0
    <3>2. left \subseteq Nat /\ left # {}
      BY <2>4, <3>1
    <3>3. Min(left) \in left /\ \A y \in left : Min(left) <= y
      BY <3>2, MinOf
    <3>4. Min(left) \in Nat /\ Min(left) <= it.pos /\ it.pos <= Min(left)
      BY <2>4, <3>1, <3>3
    <3> QED
      BY <2>1, <3>4
  <2>6. it.pos .. it.pos + it.length - 1 \subseteq left
    BY <1>3, <2>1, <2>2
  <2> QED
    BY <2>1, <2>3, <2>4, <2>5, <2>6 DEF RunIsNext, NextRun, left
<1> QED
  BY <1>1, <1>5, <1>6 DEF OnItsWay

-----------------------------------------------------------------------------
\* Words that hold the members of S up to m
Spells(v, S, m) == \E at : Placed(v, at, S) /\ at[Len(v) + 1] = m

\* No words
LEMMA SpellsNothing ==
  ASSUME NEW S
  PROVE  Spells(<<>>, S, 0)
<1> DEFINE at == [k \in 1 .. 1 |-> 0]
<1>1. Len(<<>>) = 0 /\ <<>> \in Seq(Shown)
  OBVIOUS
<1>2. at \in [1 .. Len(<<>>) + 1 -> Nat] /\ at[1] = 0
  BY <1>1
<1>3. 1 .. Len(<<>>) = {}
  BY <1>1
<1> HIDE DEF at
<1>4. Placed(<<>>, at, S)
  BY <1>1, <1>2, <1>3 DEF Placed
<1>5. at[Len(<<>>) + 1] = 0
  BY <1>1, <1>2
<1> QED
  BY <1>4, <1>5 DEF Spells

\* One word more
LEMMA SpellsAppend ==
  ASSUME NEW v, NEW S, NEW m, Spells(v, S, m), NEW w \in Shown,
         w.ones = {i \in 0 .. w.size - 1 : m + i \in S}
  PROVE  m \in Nat /\ Spells(Append(v, w), S, m + w.size)
<1>1. PICK at : Placed(v, at, S) /\ at[Len(v) + 1] = m
  BY DEF Spells
<1>2. /\ v \in Seq(Shown) /\ Len(v) \in Nat /\ at \in [1 .. Len(v) + 1 -> Nat] /\ at[1] = 0
      /\ \A k \in 1 .. Len(v) : at[k + 1] = at[k] + v[k].size
      /\ \A k \in 1 .. Len(v) : v[k].ones = {i \in 0 .. v[k].size - 1 : at[k] + i \in S}
  BY <1>1 DEF Placed
<1>3. m \in Nat /\ w.size \in Nat
  BY <1>1, <1>2 DEF Shown
<1> DEFINE u == Append(v, w)
           n == Len(v)
           b == [k \in 1 .. n + 2 |-> IF k = n + 2 THEN m + w.size ELSE at[k]]
<1>4. /\ u \in Seq(Shown) /\ Len(u) = n + 1
      /\ \A k \in 1 .. n : u[k] = v[k]
      /\ u[n + 1] = w
  BY <1>2, AppendProperties
<1>5. /\ \A k \in 1 .. n + 1 : b[k] = at[k] /\ k \in 1 .. n + 2
      /\ b[n + 2] = m + w.size
  BY <1>2
<1>6. b \in [1 .. Len(u) + 1 -> Nat]
  <2>1. \A k \in 1 .. n + 2 : b[k] \in Nat
    BY <1>2, <1>3
  <2>2. Len(u) + 1 = n + 2
    BY <1>2, <1>4
  <2> HIDE DEF u
  <2> QED
    BY <2>1, <2>2
<1> HIDE DEF u, b
<1>7. ASSUME NEW k \in 1 .. Len(u)
      PROVE  /\ b[k + 1] = b[k] + u[k].size
             /\ u[k].ones = {i \in 0 .. u[k].size - 1 : b[k] + i \in S}
  <2>1. CASE k = n + 1
    <3>1. k + 1 = n + 2 /\ b[k] = m /\ u[k] = w
      BY <1>1, <1>2, <1>4, <1>5, <2>1
    <3> QED
      BY <1>5, <3>1
  <2>2. CASE k # n + 1
    <3>1. k \in 1 .. n /\ k \in 1 .. n + 1 /\ k + 1 \in 1 .. n + 1
      BY <1>2, <1>4, <2>2
    <3>2. b[k] = at[k] /\ b[k + 1] = at[k + 1] /\ u[k] = v[k]
      BY <1>4, <1>5, <3>1
    <3> QED
      BY <1>2, <3>1, <3>2
  <2> QED
    BY <2>1, <2>2
<1>8. b[1] = 0
  BY <1>2, <1>5
<1>9. Placed(u, b, S)
  BY <1>4, <1>6, <1>7, <1>8 DEF Placed
<1>10. b[Len(u) + 1] = m + w.size
  BY <1>2, <1>4, <1>5
<1> QED
  BY <1>3, <1>9, <1>10 DEF Spells, u

\* The last word, and the words before it
LastWord(v, S, m) ==
  LET w == v[Len(v)] IN
  /\ w.size \in Nat /\ m - w.size \in Nat /\ m \in Nat
  /\ Spells(SubSeq(v, 1, Len(v) - 1), S, m - w.size)
  /\ w.ones = {i \in 0 .. w.size - 1 : (m - w.size) + i \in S}

\* Words that spell a set of bits end in a word that spells the end of it, and
\* the words before it spell the rest.
LEMMA SpellsFront ==
  ASSUME NEW v, NEW S, NEW m, Spells(v, S, m), v # <<>>
  PROVE  LastWord(v, S, m)
<1>1. PICK at : Placed(v, at, S) /\ at[Len(v) + 1] = m
  BY DEF Spells
<1>2. /\ v \in Seq(Shown) /\ Len(v) \in Nat /\ at \in [1 .. Len(v) + 1 -> Nat] /\ at[1] = 0
      /\ \A k \in 1 .. Len(v) : at[k + 1] = at[k] + v[k].size
      /\ \A k \in 1 .. Len(v) : v[k].ones = {i \in 0 .. v[k].size - 1 : at[k] + i \in S}
  BY <1>1 DEF Placed
<1>3. PICK n \in Nat : Len(v) = n + 1
  <2>1. Len(v) # 0
    BY <1>2
  <2>2. \A l \in Nat : l # 0 => \E n \in Nat : l = n + 1
    <3> TAKE l \in Nat
    <3> HAVE l # 0
    <3>1. l - 1 \in Nat /\ l = (l - 1) + 1
      OBVIOUS
    <3> WITNESS l - 1 \in Nat
    <3> QED
      BY <3>1
  <2> QED
    BY <1>2, <2>1, <2>2
<1> DEFINE u == SubSeq(v, 1, n)
           b == [k \in 1 .. n + 1 |-> at[k]]
<1>4. u \in Seq(Shown) /\ Len(u) = n /\ \A k \in 1 .. n : u[k] = v[k]
  BY <1>2, <1>3
<1>5. b \in [1 .. Len(u) + 1 -> Nat] /\ \A k \in 1 .. n + 1 : b[k] = at[k]
  <2>1. \A k \in 1 .. n + 1 : at[k] \in Nat
    BY <1>2, <1>3
  <2> HIDE DEF u
  <2> QED
    BY <1>4, <2>1
<1> HIDE DEF u, b
<1>6. Placed(u, b, S)
  <2>1. \A k \in 1 .. n : k \in 1 .. Len(v) /\ k \in 1 .. n + 1 /\ k + 1 \in 1 .. n + 1
    BY <1>3
  <2>2. \A k \in 1 .. n : b[k + 1] = b[k] + u[k].size
    BY <1>2, <1>4, <1>5, <2>1
  <2>3. \A k \in 1 .. n : u[k].ones = {i \in 0 .. u[k].size - 1 : b[k] + i \in S}
    BY <1>2, <1>4, <1>5, <2>1
  <2>4. b[1] = 0
    BY <1>2, <1>5
  <2> QED
    BY <1>4, <1>5, <2>2, <2>3, <2>4 DEF Placed
<1>7. PICK w : w = v[n + 1]
  OBVIOUS
<1>8. w.size \in Nat /\ at[n + 1] \in Nat /\ m = at[n + 1] + w.size
  <2>1. n + 1 \in 1 .. Len(v)
    BY <1>3
  <2>2. w \in Shown /\ at[n + 1] \in Nat
    BY <1>2, <1>3, <1>7, <2>1
  <2>3. at[(n + 1) + 1] = at[n + 1] + w.size
    BY <1>2, <1>7, <2>1
  <2> QED
    BY <1>1, <1>3, <2>2, <2>3 DEF Shown
<1>9. m - w.size = at[n + 1] /\ m \in Nat
  BY <1>8
<1>10. w.ones = {i \in 0 .. w.size - 1 : at[n + 1] + i \in S}
  <2>1. n + 1 \in 1 .. Len(v)
    BY <1>3
  <2> QED
    BY <1>2, <1>7, <2>1
<1>11. Spells(u, S, at[n + 1])
  <2>1. b[Len(u) + 1] = at[n + 1]
    BY <1>4, <1>5
  <2> QED
    BY <1>6, <2>1 DEF Spells
<1>12. (n + 1) - 1 = n
  OBVIOUS
<1> QED
  BY <1>3, <1>7, <1>8, <1>9, <1>10, <1>11, <1>12 DEF u, LastWord

\* Only what the words cover matters.
LEMMA SpellsSame ==
  ASSUME NEW v, NEW S, NEW T, NEW m, Spells(v, S, m), \A i \in 0 .. m - 1 : i \in S <=> i \in T
  PROVE  Spells(v, T, m)
<1>1. PICK at : Placed(v, at, S) /\ at[Len(v) + 1] = m
  BY DEF Spells
<1>2. /\ v \in Seq(Shown) /\ Len(v) \in Nat /\ at \in [1 .. Len(v) + 1 -> Nat] /\ at[1] = 0
      /\ \A k \in 1 .. Len(v) : at[k + 1] = at[k] + v[k].size
      /\ \A k \in 1 .. Len(v) : v[k].ones = {i \in 0 .. v[k].size - 1 : at[k] + i \in S}
  BY <1>1 DEF Placed
<1>3. ASSUME NEW k \in 1 .. Len(v)
      PROVE  v[k].ones = {i \in 0 .. v[k].size - 1 : at[k] + i \in T}
  <2>1. at[k] \in Nat /\ v[k].size \in Nat /\ at[k + 1] = at[k] + v[k].size /\ at[k + 1] \in Nat
    BY <1>1, WordPlace
  <2>2. k + 1 \in 1 .. Len(v) + 1 /\ Len(v) + 1 \in 1 .. Len(v) + 1 /\ k + 1 <= Len(v) + 1
    BY <1>2
  <2>3. at[k + 1] <= m /\ m \in Nat
    BY <1>1, <2>2, PlaceOrder
  <2>4. \A i \in 0 .. v[k].size - 1 : at[k] + i \in 0 .. m - 1
    <3>1. \A a \in Nat, s \in Nat, z \in Nat : z <= m /\ z = a + s => \A i \in 0 .. s - 1 : a + i \in 0 .. m - 1
      BY <2>3
    <3> QED
      BY <2>1, <2>3, <3>1
  <2>5. \A i \in 0 .. v[k].size - 1 : at[k] + i \in S <=> at[k] + i \in T
    BY <2>4
  <2>6. v[k].ones = {i \in 0 .. v[k].size - 1 : at[k] + i \in S}
    BY <1>2
  <2> QED
    BY <2>5, <2>6
<1>4. Placed(v, at, T)
  BY <1>2, <1>3 DEF Placed
<1> QED
  BY <1>1, <1>4 DEF Spells

-----------------------------------------------------------------------------
\* The words of W as a reader sees them, each as f tells
ViewBy(f, words) == [k \in DOMAIN words |-> f[words[k]]]

\* The first bits of the bitmap
Prefix(b, m) == {i \in OnesOf(b) : i < m}

\* Words that hold the first m bits, with room up to n
HoldUpTo(f, words, b, m, n) == Spells(ViewBy(f, words), Prefix(b, m), n)

\* What is seen of a word that is added, or left out
LEMMA ViewAppend ==
  ASSUME NEW W, NEW f \in [W -> Shown], NEW words \in Seq(W), NEW w \in W
  PROVE  /\ Append(words, w) \in Seq(W)
         /\ ViewBy(f, Append(words, w)) = Append(ViewBy(f, words), f[w])
<1> DEFINE n == Len(words)
           v == ViewBy(f, words)
           u == Append(words, w)
           x == ViewBy(f, u)
           y == Append(v, f[w])
<1>1. n \in Nat /\ DOMAIN words = 1 .. n /\ \A k \in 1 .. n : words[k] \in W
  OBVIOUS
<1>2. /\ u \in Seq(W) /\ Len(u) = n + 1 /\ DOMAIN u = 1 .. n + 1
      /\ \A k \in 1 .. n : u[k] = words[k]
      /\ u[n + 1] = w
  <2>1. /\ u \in Seq(W) /\ Len(u) = n + 1
        /\ \A k \in 1 .. n : u[k] = words[k]
        /\ u[n + 1] = w
    BY AppendProperties
  <2>2. DOMAIN u = 1 .. Len(u)
    BY <2>1
  <2> QED
    BY <2>1, <2>2
<1>3. v \in Seq(Shown) /\ Len(v) = n
  <2>1. v \in [1 .. n -> Shown]
    BY <1>1 DEF ViewBy
  <2> QED
    BY <1>1, <2>1
<1>4. /\ y \in Seq(Shown) /\ Len(y) = n + 1
      /\ \A k \in 1 .. n : y[k] = v[k]
      /\ y[n + 1] = f[w]
  BY <1>3, AppendProperties
<1>5. y \in [1 .. n + 1 -> Shown]
  <2> HIDE DEF y
  <2>1. y \in [1 .. Len(y) -> Shown]
    BY <1>4
  <2> QED
    BY <1>4, <2>1
<1>6. x \in [1 .. n + 1 -> Shown]
  <2>1. \A k \in 1 .. n + 1 : u[k] \in W
    BY <1>2
  <2> HIDE DEF u
  <2> QED
    BY <1>2, <2>1 DEF ViewBy
<1>7. \A k \in 1 .. n + 1 : x[k] = y[k]
  <2>1. \A k \in 1 .. n + 1 : x[k] = f[u[k]]
    BY <1>2 DEF ViewBy
  <2>2. \A k \in 1 .. n : v[k] = f[words[k]]
    BY <1>1 DEF ViewBy
  <2>3. \A k \in 1 .. n + 1 : k \in 1 .. n \/ k = n + 1
    BY <1>1
  <2> HIDE DEF x, y, u, v
  <2> QED
    BY <1>2, <1>4, <2>1, <2>2, <2>3
<1> HIDE DEF x, y
<1>8. x = y
  BY <1>5, <1>6, <1>7
<1> QED
  BY <1>2, <1>8 DEF x, y

\* The view of the words without the last is the view without its last word.
LEMMA ViewFront ==
  ASSUME NEW W, NEW f \in [W -> Shown], NEW words \in Seq(W), words # <<>>
  PROVE  /\ R!Front(words) \in Seq(W) /\ R!Last(words) \in W
         /\ ViewBy(f, words) # <<>>
         /\ ViewBy(f, words)[Len(ViewBy(f, words))] = f[R!Last(words)]
         /\ SubSeq(ViewBy(f, words), 1, Len(ViewBy(f, words)) - 1) = ViewBy(f, R!Front(words))
<1> DEFINE n == Len(words)
           v == ViewBy(f, words)
           u == R!Front(words)
           x == ViewBy(f, u)
           y == SubSeq(v, 1, n - 1)
<1>1. n \in Nat /\ n # 0 /\ DOMAIN words = 1 .. n /\ \A k \in 1 .. n : words[k] \in W
  BY EmptySeq
<1>2. v \in Seq(Shown) /\ Len(v) = n /\ \A k \in 1 .. n : v[k] = f[words[k]]
  <2>1. v \in [1 .. n -> Shown]
    BY <1>1 DEF ViewBy
  <2>2. \A k \in 1 .. n : v[k] = f[words[k]]
    BY <1>1 DEF ViewBy
  <2> QED
    BY <1>1, <2>1, <2>2
<1>3. u \in Seq(W) /\ Len(u) = n - 1 /\ DOMAIN u = 1 .. n - 1 /\ \A k \in 1 .. n - 1 : u[k] = words[k]
  BY <1>1 DEF R!Front
<1>4. y \in Seq(Shown) /\ Len(y) = n - 1 /\ \A k \in 1 .. n - 1 : y[k] = v[k]
  <2> HIDE DEF v
  <2> QED
    BY <1>1, <1>2
<1>5. y \in [1 .. n - 1 -> Shown]
  <2> HIDE DEF y
  <2>1. y \in [1 .. Len(y) -> Shown]
    BY <1>4
  <2> QED
    BY <1>4, <2>1
<1>6. x \in [1 .. n - 1 -> Shown] /\ \A k \in 1 .. n - 1 : x[k] = f[u[k]]
  <2> HIDE DEF u
  <2>1. \A k \in 1 .. n - 1 : u[k] \in W
    BY <1>3
  <2> QED
    BY <1>3, <2>1 DEF ViewBy
<1>7. R!Last(words) = words[n] /\ n \in 1 .. n
  BY <1>1 DEF R!Last
<1>8. v # <<>>
  <2>1. Len(<<>>) = 0
    OBVIOUS
  <2> HIDE DEF v
  <2> QED
    BY <1>1, <1>2, <2>1
<1> HIDE DEF u, v, x, y
<1>9. \A k \in 1 .. n - 1 : x[k] = y[k]
  <2>1. \A k \in 1 .. n - 1 : k \in 1 .. n
    BY <1>1
  <2> QED
    BY <1>2, <1>3, <1>4, <1>6, <2>1
<1>10. x = y
  BY <1>5, <1>6, <1>9
<1>11. SubSeq(v, 1, Len(v) - 1) = x
  BY <1>2, <1>10 DEF y
<1> QED
  BY <1>1, <1>2, <1>3, <1>7, <1>8, <1>11 DEF u, v, x

\* A word more, which holds the bits up to n and perhaps has more room
LEMMA AddWord ==
  ASSUME NEW W, NEW f \in [W -> Shown], NEW words \in Seq(W), NEW w \in W,
         NEW b, NEW m \in Nat, NEW n \in Nat, m <= n, HoldUpTo(f, words, b, m, m),
         f[w].ones = {i \in 0 .. f[w].size - 1 : m + i \in Prefix(b, n)}
  PROVE  Append(words, w) \in Seq(W) /\ HoldUpTo(f, Append(words, w), b, n, m + f[w].size)
<1> DEFINE v == ViewBy(f, words)
           S == Prefix(b, n)
<1>1. \A i \in 0 .. m - 1 : i \in Prefix(b, m) <=> i \in S
  BY DEF Prefix
<1>2. Spells(v, S, m)
  <2>1. Spells(v, Prefix(b, m), m)
    BY DEF HoldUpTo
  <2> HIDE DEF v, S
  <2> QED
    BY <1>1, <2>1, SpellsSame
<1>3. f[w] \in Shown
  OBVIOUS
<1> HIDE DEF v, S
<1>4. f[w].ones = {i \in 0 .. f[w].size - 1 : m + i \in S}
  BY DEF S
<1>5. PICK x \in Shown : x = f[w]
  BY <1>3
<1>6. Spells(Append(v, x), S, m + x.size)
  BY <1>2, <1>4, <1>5, SpellsAppend
<1>7. Append(words, w) \in Seq(W) /\ ViewBy(f, Append(words, w)) = Append(v, f[w])
  BY ViewAppend DEF v
<1> QED
  BY <1>5, <1>6, <1>7 DEF HoldUpTo, S

\* A word that begins at q holds its part of the first m bits.
Holding(x, b, q, m) == x.ones = {i \in 0 .. x.size - 1 : q + i \in Prefix(b, m)}

\* The last word, and the words before it: what is left holds all its bits.
LEMMA DropWord ==
  ASSUME NEW W, NEW f \in [W -> Shown], NEW words \in Seq(W), words # <<>>,
         NEW b, NEW m \in Nat, NEW n \in Nat, HoldUpTo(f, words, b, m, n),
         n - f[R!Last(words)].size <= m
  PROVE  /\ R!Front(words) \in Seq(W) /\ R!Last(words) \in W
         /\ \E q \in Nat :
              /\ q <= m /\ n = q + f[R!Last(words)].size
              /\ HoldUpTo(f, R!Front(words), b, q, q)
              /\ Holding(f[R!Last(words)], b, q, m)
<1> DEFINE v == ViewBy(f, words)
           S == Prefix(b, m)
           x == f[R!Last(words)]
<1>1. /\ R!Front(words) \in Seq(W) /\ R!Last(words) \in W
      /\ v # <<>> /\ v[Len(v)] = x
      /\ SubSeq(v, 1, Len(v) - 1) = ViewBy(f, R!Front(words))
  BY ViewFront
<1>2. Spells(v, S, n)
  BY DEF HoldUpTo
<1>0. n - x.size <= m
  OBVIOUS
<1> HIDE DEF v, S, x
<1>3. /\ x.size \in Nat /\ n - x.size \in Nat
      /\ Spells(ViewBy(f, R!Front(words)), S, n - x.size)
      /\ x.ones = {i \in 0 .. x.size - 1 : (n - x.size) + i \in S}
  <2>1. LastWord(v, S, n)
    BY <1>1, <1>2, SpellsFront
  <2> QED
    BY <1>1, <2>1 DEF LastWord
<1>4. PICK q \in Nat : q = n - x.size
  BY <1>3
<1>5. q <= m /\ n = q + x.size
  BY <1>0, <1>3, <1>4
<1>6. \A i \in 0 .. q - 1 : i \in S <=> i \in Prefix(b, q)
  BY <1>5 DEF S, Prefix
<1>7. Spells(ViewBy(f, R!Front(words)), S, q) /\ x.ones = {i \in 0 .. x.size - 1 : q + i \in S}
  BY <1>3, <1>4
<1>8. HoldUpTo(f, R!Front(words), b, q, q)
  <2> HIDE DEF S
  <2> QED
    BY <1>6, <1>7, SpellsSame DEF HoldUpTo
<1> QED
  BY <1>1, <1>5, <1>7, <1>8 DEF x, S, Holding

-----------------------------------------------------------------------------
\* Words of xah and uah: a literal of P bits, and fills of up to max times u
\* bits, where u is P in xah and 1 in uah
Sizes(u, P, max) == u \in Nat \ {0} /\ P \in Nat \ {0} /\ max \in Nat \ {0}

Codewords(P, max) ==
  [fill : {FALSE}, ones : SUBSET (0 .. P - 1)] \cup [fill : {TRUE}, val : BOOLEAN, cnt : 1 .. max]

BitsOf(u, P, max) ==
  [w \in Codewords(P, max) |->
     [size |-> IF w.fill THEN w.cnt * u ELSE P,
      ones |-> IF ~w.fill THEN w.ones ELSE IF w.val THEN 0 .. w.cnt * u - 1 ELSE {}]]

\* The words and their bits
LEMMA BitsOfWords ==
  ASSUME NEW u, NEW P, NEW max, Sizes(u, P, max)
  PROVE  /\ BitsOf(u, P, max) \in [Codewords(P, max) -> Shown]
         /\ \A ones \in SUBSET (0 .. P - 1) :
              /\ R!Literal(ones) \in Codewords(P, max)
              /\ BitsOf(u, P, max)[R!Literal(ones)] = [size |-> P, ones |-> ones]
         /\ \A val \in BOOLEAN, c \in 1 .. max :
              /\ R!Fill(val, c) \in Codewords(P, max)
              /\ BitsOf(u, P, max)[R!Fill(val, c)] =
                   [size |-> c * u, ones |-> IF val THEN 0 .. c * u - 1 ELSE {}]
<1>1. u \in Nat /\ P \in Nat /\ max \in Nat
  BY DEF Sizes
<1>2. \A c \in Nat : c * u \in Nat /\ 0 .. c * u - 1 \subseteq Nat
  BY <1>1
<1>3. BitsOf(u, P, max) \in [Codewords(P, max) -> Shown]
  <2>1. ASSUME NEW w \in Codewords(P, max)
        PROVE  /\ (IF w.fill THEN w.cnt * u ELSE P) \in Nat
               /\ (IF ~w.fill THEN w.ones ELSE IF w.val THEN 0 .. w.cnt * u - 1 ELSE {}) \in SUBSET Nat
    <3>1. CASE w.fill
      <4>1. w.cnt \in Nat
        <5>1. w \notin [fill : {FALSE}, ones : SUBSET (0 .. P - 1)]
          BY <3>1
        <5>2. w \in [fill : {TRUE}, val : BOOLEAN, cnt : 1 .. max]
          BY <5>1 DEF Codewords
        <5>3. w.cnt \in 1 .. max
          BY <5>2
        <5> QED
          BY <1>1, <5>3
      <4>2. w.cnt * u \in Nat /\ 0 .. w.cnt * u - 1 \subseteq Nat
        BY <1>2, <4>1
      <4> QED
        BY <3>1, <4>2
    <3>2. CASE ~w.fill
      <4>1. w.ones \subseteq 0 .. P - 1
        BY <3>2 DEF Codewords
      <4>2. 0 .. P - 1 \subseteq Nat
        BY <1>1
      <4> QED
        BY <1>1, <3>2, <4>1, <4>2
    <3> QED
      BY <3>1, <3>2
  <2> QED
    BY <2>1 DEF BitsOf, Shown
<1>4. ASSUME NEW ones \in SUBSET (0 .. P - 1)
      PROVE  /\ R!Literal(ones) \in Codewords(P, max)
             /\ BitsOf(u, P, max)[R!Literal(ones)] = [size |-> P, ones |-> ones]
  BY DEF R!Literal, Codewords, BitsOf
<1>5. ASSUME NEW val \in BOOLEAN, NEW c \in 1 .. max
      PROVE  /\ R!Fill(val, c) \in Codewords(P, max)
             /\ BitsOf(u, P, max)[R!Fill(val, c)] =
                  [size |-> c * u, ones |-> IF val THEN 0 .. c * u - 1 ELSE {}]
  BY DEF R!Fill, Codewords, BitsOf
<1> QED
  BY <1>3, <1>4, <1>5

\* A stretch of equal bits
Stretch(b, m, len, val) ==
  /\ b \in [R!Pos -> BOOLEAN] /\ val \in BOOLEAN /\ N \in Nat
  /\ m \in Nat /\ len \in Nat /\ m + len <= N
  /\ \A i \in m .. m + len - 1 : b[i] = val

\* Its bits in the prefix
LEMMA StretchBits ==
  ASSUME NEW b, NEW m, NEW len, NEW val, Stretch(b, m, len, val), NEW i \in Nat
  PROVE  i < m + len => (i \in Prefix(b, m + len) <=> IF i < m THEN i \in Prefix(b, m) ELSE val)
<1>1. m \in Nat /\ len \in Nat /\ m + len <= N /\ N \in Nat /\ b \in [0 .. N - 1 -> BOOLEAN]
  BY DEF Stretch, R!Pos
<1> SUFFICES ASSUME i < m + len
             PROVE  i \in Prefix(b, m + len) <=> IF i < m THEN i \in Prefix(b, m) ELSE val
  OBVIOUS
<1>2. i \in 0 .. N - 1
  BY <1>1
<1>3. i \in OnesOf(b) <=> b[i]
  BY <1>2 DEF OnesOf, R!Pos
<1>4. CASE i < m
  BY <1>4 DEF Prefix
<1>5. CASE ~(i < m)
  <2>1. b[i] = val
    BY <1>1, <1>5 DEF Stretch
  <2> QED
    BY <1>3, <1>5, <2>1 DEF Prefix
<1> QED
  BY <1>4, <1>5

\* A fill more
LEMMA AddFill ==
  ASSUME NEW u, NEW P, NEW max, Sizes(u, P, max), NEW words \in Seq(Codewords(P, max)),
         NEW b, NEW m, NEW val, NEW c \in 1 .. max,
         HoldUpTo(BitsOf(u, P, max), words, b, m, m), Stretch(b, m, c * u, val)
  PROVE  /\ Append(words, R!Fill(val, c)) \in Seq(Codewords(P, max))
         /\ HoldUpTo(BitsOf(u, P, max), Append(words, R!Fill(val, c)), b, m + c * u, m + c * u)
<1> DEFINE f == BitsOf(u, P, max)
           w == R!Fill(val, c)
<1>1. PICK s : s = c * u
  OBVIOUS
<1>2. Stretch(b, m, s, val) /\ m \in Nat /\ s \in Nat /\ val \in BOOLEAN
  BY <1>1 DEF Stretch
<1>3. /\ f \in [Codewords(P, max) -> Shown] /\ w \in Codewords(P, max)
      /\ f[w] = [size |-> s, ones |-> IF val THEN 0 .. s - 1 ELSE {}]
  BY <1>1, <1>2, BitsOfWords
<1> HIDE DEF f, w
<1>4. f[w].ones = {i \in 0 .. s - 1 : m + i \in Prefix(b, m + s)} /\ f[w].size = s
  <2>1. \A i \in 0 .. s - 1 : m + i \in Prefix(b, m + s) <=> val
    <3> TAKE i \in 0 .. s - 1
    <3>1. m + i \in Nat /\ m + i < m + s /\ ~(m + i < m)
      BY <1>2
    <3> QED
      BY <1>2, <3>1, StretchBits
  <2> QED
    BY <1>3, <2>1
<1>5. PICK n \in Nat : n = m + s /\ m <= n
  <2>1. m + s \in Nat /\ m <= m + s
    BY <1>2
  <2> QED
    BY <2>1
<1>6. Append(words, w) \in Seq(Codewords(P, max)) /\ HoldUpTo(f, Append(words, w), b, n, m + f[w].size)
  <2>1. HoldUpTo(f, words, b, m, m)
    BY DEF f
  <2>2. f[w].ones = {i \in 0 .. f[w].size - 1 : m + i \in Prefix(b, n)}
    BY <1>4, <1>5
  <2> QED
    BY <1>2, <1>3, <1>5, <2>1, <2>2, AddWord
<1> QED
  BY <1>1, <1>4, <1>5, <1>6 DEF f, w

\* The bits of a literal from q on
BitsFrom(P, b, q, n) == {i \in 0 .. P - 1 : q + i \in Prefix(b, n)}

\* A literal more
LEMMA AddLiteral ==
  ASSUME NEW u, NEW P, NEW max, Sizes(u, P, max), NEW words \in Seq(Codewords(P, max)),
         NEW b, NEW m \in Nat, NEW n \in Nat, m <= n,
         HoldUpTo(BitsOf(u, P, max), words, b, m, m)
  PROVE  LET w == R!Literal(BitsFrom(P, b, m, n))
         IN  /\ Append(words, w) \in Seq(Codewords(P, max))
             /\ HoldUpTo(BitsOf(u, P, max), Append(words, w), b, n, m + P)
<1> DEFINE f == BitsOf(u, P, max)
           ones == BitsFrom(P, b, m, n)
           w == R!Literal(ones)
<1>1. ones \in SUBSET (0 .. P - 1)
  BY DEF BitsFrom
<1>2. /\ f \in [Codewords(P, max) -> Shown] /\ w \in Codewords(P, max)
      /\ f[w] = [size |-> P, ones |-> ones]
  <2> HIDE DEF ones
  <2> QED
    BY <1>1, BitsOfWords
<1>3. HoldUpTo(f, words, b, m, m)
  OBVIOUS
<1> HIDE DEF f, w
<1>4. f[w].size = P /\ f[w].ones = {i \in 0 .. f[w].size - 1 : m + i \in Prefix(b, n)}
  BY <1>2 DEF BitsFrom
<1>5. Append(words, w) \in Seq(Codewords(P, max)) /\ HoldUpTo(f, Append(words, w), b, n, m + f[w].size)
  BY <1>2, <1>3, <1>4, AddWord
<1> QED
  BY <1>4, <1>5 DEF f, w

\* The last word
LEMMA KindOfWord ==
  ASSUME NEW P, NEW max, NEW w \in Codewords(P, max)
  PROVE  /\ w.fill \in BOOLEAN
         /\ w.fill => w.val \in BOOLEAN /\ w.cnt \in 1 .. max /\ w = R!Fill(w.val, w.cnt)
         /\ ~w.fill => w.ones \subseteq 0 .. P - 1 /\ w = R!Literal(w.ones)
<1>1. CASE w \in [fill : {FALSE}, ones : SUBSET (0 .. P - 1)]
  BY <1>1 DEF R!Literal
<1>2. CASE w \in [fill : {TRUE}, val : BOOLEAN, cnt : 1 .. max]
  BY <1>2 DEF R!Fill
<1> QED
  BY <1>1, <1>2 DEF Codewords

\* A longer stretch
LEMMA StretchOn ==
  ASSUME NEW b, NEW q, NEW len, NEW val, Stretch(b, q, len, val),
         NEW more, Stretch(b, q + len, more, val)
  PROVE  Stretch(b, q, len + more, val)
<1>1. q \in Nat /\ len \in Nat /\ more \in Nat /\ N \in Nat /\ (q + len) + more <= N
  BY DEF Stretch
<1>2. len + more \in Nat /\ q + (len + more) = (q + len) + more
  BY <1>1
<1>3. \A i \in q .. q + (len + more) - 1 : i \in q .. q + len - 1 \/ i \in q + len .. (q + len) + more - 1
  BY <1>1
<1> QED
  BY <1>1, <1>2, <1>3 DEF Stretch

\* Part of a stretch
LEMMA StretchPart ==
  ASSUME NEW b, NEW m, NEW len, NEW val, Stretch(b, m, len, val), NEW d \in 0 .. len
  PROVE  /\ d \in Nat /\ len - d \in Nat /\ m + d \in Nat
         /\ Stretch(b, m, d, val) /\ Stretch(b, m + d, len - d, val)
<1>1. m \in Nat /\ len \in Nat /\ N \in Nat /\ m + len <= N
  BY DEF Stretch
<1>2. d \in Nat /\ len - d \in Nat /\ m + d \in Nat /\ m + d <= N /\ (m + d) + (len - d) = m + len
  BY <1>1
<1>3. \A i \in m .. m + d - 1 : i \in m .. m + len - 1
  BY <1>1, <1>2
<1>4. \A i \in m + d .. (m + d) + (len - d) - 1 : i \in m .. m + len - 1
  BY <1>1, <1>2
<1> QED
  BY <1>1, <1>2, <1>3, <1>4 DEF Stretch

\* The bits of a fill at the end of the words
LEMMA FillIsStretch ==
  ASSUME NEW u, NEW P, NEW max, Sizes(u, P, max), NEW words \in Seq(Codewords(P, max)),
         words # <<>>, NEW b, b \in [R!Pos -> BOOLEAN], NEW m \in 0 .. N,
         HoldUpTo(BitsOf(u, P, max), words, b, m, m), R!Last(words).fill
  PROVE  LET w == R!Last(words)
         IN  /\ R!Front(words) \in Seq(Codewords(P, max)) /\ w \in Codewords(P, max)
             /\ \E q \in Nat : /\ m = q + w.cnt * u
                               /\ HoldUpTo(BitsOf(u, P, max), R!Front(words), b, q, q)
                               /\ Stretch(b, q, w.cnt * u, w.val)
<1> DEFINE f == BitsOf(u, P, max)
           w == R!Last(words)
<1>0. N \in Nat /\ m \in Nat /\ m <= N
  BY WordCodecsAssumption
<1>1. f \in [Codewords(P, max) -> Shown]
  BY BitsOfWords
<1>2. w \in Codewords(P, max)
  BY <1>1, ViewFront
<1>3. w.val \in BOOLEAN /\ w.cnt \in 1 .. max /\ w = R!Fill(w.val, w.cnt)
  BY <1>2, KindOfWord
<1>4. PICK s : s = w.cnt * u
  OBVIOUS
<1>5. f[w].size = s /\ f[w].ones = (IF w.val THEN 0 .. s - 1 ELSE {}) /\ s \in Nat
  <2>1. f[R!Fill(w.val, w.cnt)] = [size |-> w.cnt * u, ones |-> IF w.val THEN 0 .. w.cnt * u - 1 ELSE {}]
    BY <1>3, BitsOfWords
  <2>2. w.cnt \in Nat /\ u \in Nat
    BY <1>3 DEF Sizes
  <2>3. w.cnt * u \in Nat
    BY <2>2
  <2> HIDE DEF f
  <2>4. f[w] = [size |-> s, ones |-> IF w.val THEN 0 .. s - 1 ELSE {}]
    BY <1>3, <1>4, <2>1 DEF f
  <2> HIDE DEF w
  <2> QED
    BY <1>4, <2>3, <2>4
<1>6. m - s <= m
  BY <1>0, <1>5
<1>7. /\ R!Front(words) \in Seq(Codewords(P, max))
      /\ \E q \in Nat : /\ q <= m /\ m = q + f[w].size
                        /\ HoldUpTo(f, R!Front(words), b, q, q)
                        /\ Holding(f[w], b, q, m)
  <2>1. HoldUpTo(f, words, b, m, m) /\ m - f[R!Last(words)].size <= m
    BY <1>5, <1>6
  <2>2. PICK W : W = Codewords(P, max)
    OBVIOUS
  <2> HIDE DEF f
  <2>3. /\ f \in [W -> Shown] /\ words \in Seq(W) /\ words # <<>> /\ m \in Nat
    BY <1>0, <1>1, <2>2
  <2>4. /\ R!Front(words) \in Seq(W)
        /\ \E q \in Nat :
              /\ q <= m /\ m = q + f[R!Last(words)].size
              /\ HoldUpTo(f, R!Front(words), b, q, q)
              /\ Holding(f[R!Last(words)], b, q, m)
    BY <2>1, <2>3, DropWord
  <2>5. R!Front(words) \in Seq(Codewords(P, max))
    BY <2>2, <2>4
  <2> QED
    BY <2>4, <2>5
<1> HIDE DEF f, w
<1>8. PICK q \in Nat : /\ q <= m /\ m = q + s
                       /\ HoldUpTo(f, R!Front(words), b, q, q)
                       /\ f[w].ones = {i \in 0 .. s - 1 : q + i \in Prefix(b, m)}
  BY <1>5, <1>7 DEF Holding
<1>9. \A i \in q .. q + s - 1 : b[i] = w.val
  <2> TAKE i \in q .. q + s - 1
  <2>1. i - q \in 0 .. s - 1 /\ q + (i - q) = i /\ i < m /\ i \in 0 .. N - 1
    BY <1>0, <1>5, <1>8
  <2>2. i - q \in f[w].ones <=> i \in Prefix(b, m)
    BY <1>8, <2>1
  <2>3. i \in Prefix(b, m) <=> b[i]
    BY <2>1 DEF Prefix, OnesOf, R!Pos
  <2>4. i - q \in f[w].ones <=> w.val
    BY <1>3, <1>5, <2>1
  <2>5. b[i] \in BOOLEAN
    BY <2>1 DEF R!Pos
  <2> QED
    BY <1>3, <2>2, <2>3, <2>4, <2>5
<1>10. Stretch(b, q, s, w.val)
  BY <1>0, <1>3, <1>5, <1>8, <1>9 DEF Stretch
<1> QED
  BY <1>2, <1>4, <1>7, <1>8, <1>10 DEF f, w

\* A fill counts on.
LEMMA GrowFill ==
  ASSUME NEW u, NEW P, NEW max, Sizes(u, P, max), NEW words \in Seq(Codewords(P, max)),
         words # <<>>, NEW b, NEW m \in 0 .. N,
         HoldUpTo(BitsOf(u, P, max), words, b, m, m), R!Last(words).fill,
         NEW c \in Nat, R!Last(words).cnt + c <= max,
         Stretch(b, m, c * u, R!Last(words).val)
  PROVE  LET w == R!Last(words)
             n == R!ReplaceLast(words, R!Fill(w.val, w.cnt + c))
         IN  /\ n \in Seq(Codewords(P, max)) /\ n # <<>> /\ R!Last(n) = R!Fill(w.val, w.cnt + c)
             /\ HoldUpTo(BitsOf(u, P, max), n, b, m + c * u, m + c * u)
<1> DEFINE w == R!Last(words)
           n == R!ReplaceLast(words, R!Fill(w.val, w.cnt + c))
<1>1. /\ R!Front(words) \in Seq(Codewords(P, max)) /\ w \in Codewords(P, max)
      /\ \E q \in Nat : /\ m = q + w.cnt * u
                        /\ HoldUpTo(BitsOf(u, P, max), R!Front(words), b, q, q)
                        /\ Stretch(b, q, w.cnt * u, w.val)
  <2>1. b \in [R!Pos -> BOOLEAN]
    BY DEF Stretch
  <2> QED
    BY <2>1, FillIsStretch
<1>2. w.val \in BOOLEAN /\ w.cnt \in 1 .. max
  BY <1>1, KindOfWord
<1>3. PICK q \in Nat : /\ m = q + w.cnt * u
                       /\ HoldUpTo(BitsOf(u, P, max), R!Front(words), b, q, q)
                       /\ Stretch(b, q, w.cnt * u, w.val)
  BY <1>1
<1>4. PICK k \in 1 .. max : k = w.cnt + c
  <2>1. max \in Nat /\ w.cnt + c <= max
    BY DEF Sizes
  <2> HIDE DEF w
  <2>2. w.cnt + c \in 1 .. max
    BY <1>2, <2>1
  <2> QED
    BY <2>2
<1>5. Stretch(b, m, c * u, w.val)
  OBVIOUS
<1> HIDE DEF w
<1>6. k * u = w.cnt * u + c * u /\ w.cnt * u \in Nat /\ c * u \in Nat
  <2>1. w.cnt \in Nat /\ u \in Nat
    BY <1>2 DEF Sizes
  <2>2. \A x \in Nat, y \in Nat, z \in Nat : (x + y) * z = x * z + y * z /\ x * z \in Nat /\ y * z \in Nat
    OBVIOUS
  <2> QED
    BY <1>4, <2>1, <2>2
<1>7. Stretch(b, q, k * u, w.val)
  <2>1. PICK x : x = w.cnt * u
    OBVIOUS
  <2>2. PICK y : y = c * u
    OBVIOUS
  <2>3. Stretch(b, q, x + y, w.val)
    BY <1>3, <1>5, <2>1, <2>2, StretchOn
  <2> QED
    BY <1>6, <2>1, <2>2, <2>3
<1>8. /\ Append(R!Front(words), R!Fill(w.val, k)) \in Seq(Codewords(P, max))
      /\ HoldUpTo(BitsOf(u, P, max), Append(R!Front(words), R!Fill(w.val, k)), b, q + k * u, q + k * u)
  BY <1>1, <1>3, <1>7, AddFill
<1>9. q + k * u = m + c * u
  BY <1>3, <1>6
<1>10. n = Append(R!Front(words), R!Fill(w.val, k))
  BY <1>4 DEF R!ReplaceLast
<1>11. n # <<>> /\ R!Last(n) = R!Fill(w.val, k)
  <2>1. R!Fill(w.val, k) \in Codewords(P, max)
    BY <1>2, BitsOfWords
  <2> HIDE DEF n
  <2>2. /\ n # <<>> /\ Len(n) = Len(R!Front(words)) + 1
        /\ n[Len(R!Front(words)) + 1] = R!Fill(w.val, k)
    BY <1>1, <1>10, <2>1, AppendProperties
  <2> QED
    BY <2>2 DEF R!Last
<1> HIDE DEF n
<1> QED
  BY <1>4, <1>8, <1>9, <1>10, <1>11 DEF w, n

\* The bits of a literal with c bits more
Grown(ones, val, begin, c) == ones \cup (IF val THEN begin .. begin + c - 1 ELSE {})

\* A literal holds more of its bits.
LEMMA LiteralGrows ==
  ASSUME NEW P \in Nat, NEW b, NEW m \in Nat, NEW c \in Nat, NEW val, Stretch(b, m, c, val),
         NEW q \in Nat, q <= m, m + c <= q + P,
         NEW n \in Nat, n = m + c, NEW begin \in Nat, begin = m - q
  PROVE  BitsFrom(P, b, q, n) = Grown(BitsFrom(P, b, q, m), val, begin, c)
<1>1. m \in Nat /\ c \in Nat /\ val \in BOOLEAN
  BY DEF Stretch
<1> DEFINE A == BitsFrom(P, b, q, m + c)
           B == BitsFrom(P, b, q, m)
           C == IF val THEN m - q .. (m - q) + c - 1 ELSE {}
<1>2. A \subseteq 0 .. P - 1 /\ B \subseteq 0 .. P - 1 /\ C \subseteq 0 .. P - 1
  <2>1. m - q .. (m - q) + c - 1 \subseteq 0 .. P - 1
    BY <1>1
  <2> QED
    BY <2>1 DEF BitsFrom
<1>3. ASSUME NEW i \in 0 .. P - 1
      PROVE  i \in A <=> i \in B \/ i \in C
  <2>1. q + i \in Nat
    OBVIOUS
  <2>2. (i \in A <=> q + i \in Prefix(b, m + c)) /\ (i \in B <=> q + i \in Prefix(b, m))
    BY DEF BitsFrom
  <2>3. CASE q + i < m
    <3>1. i \notin C
      BY <1>1, <2>3
    <3>2. q + i < m + c
      BY <1>1, <2>3
    <3>3. q + i \in Prefix(b, m + c) <=> q + i \in Prefix(b, m)
      BY <2>1, <2>3, <3>2, StretchBits
    <3> HIDE DEF A, B, C
    <3> QED
      BY <2>2, <3>1, <3>3
  <2>4. CASE ~(q + i < m) /\ q + i < m + c
    <3>1. i \in C <=> val
      BY <1>1, <2>4
    <3>2. q + i \in Prefix(b, m + c) <=> val
      BY <2>1, <2>4, StretchBits
    <3>3. q + i \notin Prefix(b, m)
      BY <2>4 DEF Prefix
    <3> HIDE DEF A, B, C
    <3> QED
      BY <2>2, <3>1, <3>2, <3>3
  <2>5. CASE ~(q + i < m + c)
    <3>1. i \notin C
      BY <1>1, <2>5
    <3>2. ~(q + i < m)
      BY <1>1, <2>5
    <3>3. q + i \notin Prefix(b, m) /\ q + i \notin Prefix(b, m + c)
      BY <2>5, <3>2 DEF Prefix
    <3> HIDE DEF A, B, C
    <3> QED
      BY <2>2, <3>1, <3>3
  <2> QED
    BY <2>3, <2>4, <2>5
<1> HIDE DEF A, B, C
<1>4. A = B \cup C
  BY <1>2, <1>3
<1> QED
  <2>1. n = m + c /\ begin = m - q
    OBVIOUS
  <2> QED
    BY <1>4, <2>1 DEF A, B, C, Grown

\* The last literal, with room for r bits more
LEMMA LiteralAtEnd ==
  ASSUME NEW u, NEW P, NEW max, Sizes(u, P, max), NEW words \in Seq(Codewords(P, max)),
         words # <<>>, NEW b, NEW m \in Nat, NEW r \in 0 .. P,
         HoldUpTo(BitsOf(u, P, max), words, b, m, m + r), ~R!Last(words).fill
  PROVE  /\ R!Front(words) \in Seq(Codewords(P, max))
         /\ R!Last(words).ones \subseteq 0 .. P - 1
         /\ \E q \in Nat : /\ q <= m /\ m + r = q + P
                           /\ HoldUpTo(BitsOf(u, P, max), R!Front(words), b, q, q)
                           /\ R!Last(words).ones = BitsFrom(P, b, q, m)
<1> DEFINE f == BitsOf(u, P, max)
           w == R!Last(words)
<1>0. P \in Nat /\ r \in Nat /\ r <= P /\ m + r \in Nat
  BY DEF Sizes
<1>1. f \in [Codewords(P, max) -> Shown]
  BY BitsOfWords
<1>2. w \in Codewords(P, max)
  BY <1>1, ViewFront
<1>3. w.ones \subseteq 0 .. P - 1 /\ w = R!Literal(w.ones)
  BY <1>2, KindOfWord
<1>4. f[w].size = P /\ f[w].ones = w.ones
  <2>1. f[R!Literal(w.ones)] = [size |-> P, ones |-> w.ones]
    BY <1>3, BitsOfWords
  <2>2. f[w] = [size |-> P, ones |-> w.ones]
    BY <1>3, <2>1
  <2> HIDE DEF f, w
  <2> QED
    BY <2>2
<1>5. PICK W : W = Codewords(P, max)
  OBVIOUS
<1>6. PICK n \in Nat : n = m + r
  BY <1>0
<1>7. HoldUpTo(f, words, b, m, n) /\ n - f[R!Last(words)].size <= m
  BY <1>0, <1>4, <1>6
<1> HIDE DEF f
<1>8. f \in [W -> Shown] /\ words \in Seq(W) /\ words # <<>>
  BY <1>1, <1>5
<1>9. /\ R!Front(words) \in Seq(W)
      /\ \E q \in Nat :
            /\ q <= m /\ n = q + f[R!Last(words)].size
            /\ HoldUpTo(f, R!Front(words), b, q, q)
            /\ Holding(f[R!Last(words)], b, q, m)
  BY <1>7, <1>8, DropWord
<1> HIDE DEF w
<1>10. PICK q \in Nat : /\ q <= m /\ n = q + P
                        /\ HoldUpTo(f, R!Front(words), b, q, q)
                        /\ Holding(f[w], b, q, m)
  BY <1>4, <1>9 DEF w
<1>11. w.ones = BitsFrom(P, b, q, m)
  BY <1>4, <1>10 DEF Holding, BitsFrom
<1> QED
  BY <1>3, <1>5, <1>6, <1>9, <1>10, <1>11 DEF f, w

\* What becomes of words whose last literal takes c bits of a run: they hold
\* the bits up to m + c and leave the rest of their room.
LiteralTakes(u, P, max, words, b, m, r, c, ones) ==
  LET n == R!ReplaceLast(words, R!Literal(ones))
  IN  /\ n \in Seq(Codewords(P, max)) /\ n # <<>> /\ R!Last(n) = R!Literal(ones)
      /\ HoldUpTo(BitsOf(u, P, max), n, b, m + c, m + r)
      /\ ones \subseteq 0 .. P - 1
      /\ \E q \in Nat : q <= m /\ m + r = q + P /\ ones = BitsFrom(P, b, q, m + c)

\* The last literal takes some of its room.
LEMMA GrowLiteral ==
  ASSUME NEW u, NEW P, NEW max, Sizes(u, P, max), NEW words \in Seq(Codewords(P, max)),
         words # <<>>, NEW b, NEW m \in Nat, NEW r \in 0 .. P,
         HoldUpTo(BitsOf(u, P, max), words, b, m, m + r), ~R!Last(words).fill,
         NEW c \in 0 .. r, NEW val, Stretch(b, m, c, val), NEW begin \in Nat, begin = P - r
  PROVE  LiteralTakes(u, P, max, words, b, m, r, c, Grown(R!Last(words).ones, val, begin, c))
<1> DEFINE ones == Grown(R!Last(words).ones, val, begin, c)
           n    == R!ReplaceLast(words, R!Literal(ones))
<1>1. /\ R!Front(words) \in Seq(Codewords(P, max))
      /\ \E q \in Nat : /\ q <= m /\ m + r = q + P
                        /\ HoldUpTo(BitsOf(u, P, max), R!Front(words), b, q, q)
                        /\ R!Last(words).ones = BitsFrom(P, b, q, m)
  BY LiteralAtEnd
<1>2. PICK q \in Nat : /\ q <= m /\ m + r = q + P
                       /\ HoldUpTo(BitsOf(u, P, max), R!Front(words), b, q, q)
                       /\ R!Last(words).ones = BitsFrom(P, b, q, m)
  BY <1>1
<1>3. P \in Nat /\ r \in Nat /\ c \in Nat /\ c <= r
  BY DEF Sizes
<1>4. begin = m - q /\ m + c <= q + P /\ m + c \in Nat /\ q <= m + c
  BY <1>2, <1>3
<1>5. ones = BitsFrom(P, b, q, m + c)
  <2>1. PICK n1 \in Nat : n1 = m + c
    BY <1>4
  <2>2. /\ P \in Nat /\ m \in Nat /\ c \in Nat /\ q \in Nat /\ n1 \in Nat /\ begin \in Nat
        /\ Stretch(b, m, c, val) /\ q <= m /\ m + c <= q + P /\ n1 = m + c /\ begin = m - q
    BY <1>2, <1>3, <1>4, <2>1
  <2>3. BitsFrom(P, b, q, n1) = Grown(BitsFrom(P, b, q, m), val, begin, c)
    BY ONLY <2>2, LiteralGrows
  <2> QED
    BY <1>2, <2>1, <2>3
<1>6. ones \subseteq 0 .. P - 1
  BY <1>5 DEF BitsFrom
<1>7. PICK l : l = R!Literal(ones)
  OBVIOUS
<1> HIDE DEF ones
<1>8. /\ Append(R!Front(words), l) \in Seq(Codewords(P, max))
      /\ HoldUpTo(BitsOf(u, P, max), Append(R!Front(words), l), b, m + c, q + P)
  BY <1>1, <1>2, <1>4, <1>5, <1>7, AddLiteral
<1>9. n = Append(R!Front(words), l)
  BY <1>7 DEF R!ReplaceLast
<1>10. n # <<>> /\ R!Last(n) = l
  <2>1. l \in Codewords(P, max)
    BY <1>6, <1>7, BitsOfWords
  <2> HIDE DEF n
  <2>2. /\ n # <<>> /\ Len(n) = Len(R!Front(words)) + 1
        /\ n[Len(R!Front(words)) + 1] = l
    BY <1>1, <1>9, <2>1, AppendProperties
  <2> QED
    BY <2>2 DEF R!Last
<1> HIDE DEF n
<1>11. HoldUpTo(BitsOf(u, P, max), n, b, m + c, m + r)
  BY <1>2, <1>8, <1>9
<1>12. n \in Seq(Codewords(P, max))
  BY <1>8, <1>9
<1>13. \E x \in Nat : x <= m /\ m + r = x + P /\ ones = BitsFrom(P, b, x, m + c)
  BY <1>2, <1>5
<1> QED
  BY <1>6, <1>7, <1>10, <1>11, <1>12, <1>13 DEF LiteralTakes, n, ones

-----------------------------------------------------------------------------
\* The fills for r repetitions
Fills(max, val, r) ==
  [k \in 1 .. (r + max - 1) \div max |-> R!Fill(val, R!AtMost(max, r - (k - 1) * max))]

\* What each of them counts, and all up to it
Parts(max, r, n, cnt, done) ==
  /\ n \in Nat /\ n = (r + max - 1) \div max /\ (n = 0 <=> r = 0)
  /\ cnt \in [1 .. n -> 1 .. max]
  /\ \A k \in 1 .. n : cnt[k] = R!AtMost(max, r - (k - 1) * max)
  /\ done \in [0 .. n -> 0 .. r] /\ done[0] = 0 /\ done[n] = r
  /\ \A k \in 1 .. n : done[k] = done[k - 1] + cnt[k]

\* A run is cut into repetitions, each as long as the limit allows, that add up
\* to the run.
LEMMA PartsOf ==
  ASSUME NEW max \in Nat \ {0}, NEW r \in Nat
  PROVE  \E n, cnt, done : Parts(max, r, n, cnt, done)
<1> DEFINE z == r + max - 1
           n == z \div max
<1>1. z \in Nat /\ max \in Nat /\ max > 0
  OBVIOUS
<1>2. n \in Nat /\ z % max \in 0 .. max - 1 /\ max * n \in Nat /\ z = max * n + (z % max)
  <2> HIDE DEF z
  <2> QED
    BY <1>1, BlockOf
<1>3. PICK e \in Nat : e = max * n
  BY <1>2
<1>4. r <= e /\ e < r + max
  BY <1>2, <1>3
<1> HIDE DEF n
<1>5. n = 0 <=> r = 0
  <2>1. n = 0 => e = 0
    BY <1>3
  <2>2. n # 0 => max <= e
    <3> HAVE n # 0
    <3>1. max * 0 + max <= max * n
      BY <1>2, BlockOrder
    <3>2. max * 0 = 0
      OBVIOUS
    <3> QED
      BY <1>3, <3>1, <3>2
  <2> QED
    BY <1>4, <2>1, <2>2
<1> DEFINE at == [k \in 0 .. n |-> k * max]
           cnt == [k \in 1 .. n |-> R!AtMost(max, r - (k - 1) * max)]
           done == [k \in 0 .. n |-> R!AtMost(r, at[k])]
<1>6. at \in [0 .. n -> Nat] /\ at[0] = 0 /\ at[n] = e
  <2>1. \A k \in Nat : k * max \in Nat
    BY <1>1
  <2>2. 0 * max = 0 /\ n * max = max * n
    BY <1>2
  <2> QED
    BY <1>2, <1>3, <2>1, <2>2
<1>7. \A k \in 1 .. n : at[k - 1] = (k - 1) * max /\ at[k] = at[k - 1] + max /\ at[k - 1] < r
  <2> TAKE k \in 1 .. n
  <2>1. k - 1 \in Nat /\ k \in Nat /\ k - 1 \in 0 .. n /\ k \in 0 .. n
    BY <1>2
  <2>2. at[k - 1] = (k - 1) * max /\ at[k] = k * max
    BY <2>1
  <2>3. max * (k - 1) \in Nat /\ max * n \in Nat /\ max * (k - 1) + max <= max * n
    BY <1>2, <2>1, BlockOrder
  <2>4. \A a \in Nat : (a - 1) * max = max * (a - 1) /\ a * max = max * (a - 1) + max
    BY <1>1
  <2>5. (k - 1) * max = max * (k - 1) /\ k * max = max * (k - 1) + max
    BY <2>1, <2>4
  <2> HIDE DEF at
  <2> QED
    BY <1>3, <1>4, <2>2, <2>3, <2>5
<1> HIDE DEF at
<1>8. \A k \in 1 .. n : cnt[k] = R!AtMost(max, r - at[k - 1]) /\ cnt[k] \in 1 .. max
  <2> TAKE k \in 1 .. n
  <2>1. k - 1 \in 0 .. n
    BY <1>2
  <2>2. at[k - 1] \in Nat /\ at[k - 1] < r
    BY <1>6, <1>7, <2>1
  <2>3. cnt[k] = R!AtMost(max, r - at[k - 1])
    BY <1>7
  <2> QED
    BY <2>2, <2>3 DEF R!AtMost
<1>9. done \in [0 .. n -> 0 .. r] /\ done[0] = 0 /\ done[n] = r
  <2>1. \A a \in Nat : R!AtMost(r, a) \in 0 .. r
    BY DEF R!AtMost
  <2>2. R!AtMost(r, 0) = 0 /\ R!AtMost(r, e) = r
    BY <1>4 DEF R!AtMost
  <2>3. 0 \in 0 .. n /\ n \in 0 .. n
    BY <1>2
  <2> QED
    BY <1>6, <2>1, <2>2, <2>3
<1>10. \A k \in 1 .. n : done[k] = done[k - 1] + cnt[k]
  <2> TAKE k \in 1 .. n
  <2>1. k - 1 \in 0 .. n /\ k \in 0 .. n
    BY <1>2
  <2>2. at[k - 1] \in Nat /\ at[k - 1] < r /\ at[k] = at[k - 1] + max
    BY <1>6, <1>7, <2>1
  <2>3. done[k] = R!AtMost(r, at[k]) /\ done[k - 1] = R!AtMost(r, at[k - 1])
    BY <2>1
  <2>4. cnt[k] = R!AtMost(max, r - at[k - 1])
    BY <1>8
  <2> HIDE DEF cnt, done
  <2> QED
    BY <2>2, <2>3, <2>4 DEF R!AtMost
<1>11. cnt \in [1 .. n -> 1 .. max]
  <2> DEFINE D == 1 .. n
  <2>1. cnt = [k \in D |-> R!AtMost(max, r - (k - 1) * max)]
    OBVIOUS
  <2> QED
    BY <1>8
<1>12. \A k \in 1 .. n : cnt[k] = R!AtMost(max, r - (k - 1) * max)
  OBVIOUS
<1> HIDE DEF cnt, done
<1>13. n = (r + max - 1) \div max
  BY DEF n
<1>14. Parts(max, r, n, cnt, done)
  BY <1>2, <1>5, <1>9, <1>10, <1>11, <1>12, <1>13 DEF Parts
<1> QED
  BY <1>14

\* Words in front of more and more of others
LEMMA ConcatOneMore ==
  ASSUME NEW W, NEW s \in Seq(W), NEW t \in Seq(W), NEW k \in Nat, k + 1 <= Len(t)
  PROVE  /\ t[k + 1] \in W /\ s \o SubSeq(t, 1, k) \in Seq(W)
         /\ s \o SubSeq(t, 1, k + 1) = Append(s \o SubSeq(t, 1, k), t[k + 1])
<1>1. Len(s) \in Nat /\ Len(t) \in Nat /\ \A i \in 1 .. Len(t) : t[i] \in W
  OBVIOUS
<1> DEFINE p == SubSeq(t, 1, k)
           q == SubSeq(t, 1, k + 1)
<1>2. p \in Seq(W) /\ Len(p) = k /\ \A i \in 1 .. k : p[i] = t[i]
  BY <1>1
<1>3. q \in Seq(W) /\ Len(q) = k + 1 /\ \A i \in 1 .. k + 1 : q[i] = t[i]
  BY <1>1
<1> HIDE DEF p, q
<1>4. t[k + 1] \in W
  BY <1>1
<1>5. /\ s \o p \in Seq(W) /\ Len(s \o p) = Len(s) + k
      /\ \A i \in 1 .. Len(s) + k : (s \o p)[i] = IF i <= Len(s) THEN s[i] ELSE p[i - Len(s)]
  <2>1. /\ s \o p \in Seq(W) /\ Len(s \o p) = Len(s) + Len(p)
        /\ \A i \in 1 .. Len(s) + Len(p) : (s \o p)[i] = IF i <= Len(s) THEN s[i] ELSE p[i - Len(s)]
    BY <1>2, ConcatProperties
  <2> QED
    BY <1>2, <2>1
<1>6. /\ s \o q \in Seq(W) /\ Len(s \o q) = Len(s) + (k + 1)
      /\ \A i \in 1 .. Len(s) + (k + 1) : (s \o q)[i] = IF i <= Len(s) THEN s[i] ELSE q[i - Len(s)]
  <2>1. /\ s \o q \in Seq(W) /\ Len(s \o q) = Len(s) + Len(q)
        /\ \A i \in 1 .. Len(s) + Len(q) : (s \o q)[i] = IF i <= Len(s) THEN s[i] ELSE q[i - Len(s)]
    <3>1. q \in Seq(W)
      BY <1>3
    <3> QED
      BY ONLY s \in Seq(W), <3>1, ConcatProperties
  <2> QED
    BY <1>3, <2>1
<1> DEFINE a == Append(s \o p, t[k + 1])
<1>7. /\ a \in Seq(W) /\ Len(a) = Len(s) + k + 1
      /\ \A i \in 1 .. Len(s) + k : a[i] = (s \o p)[i]
      /\ a[Len(s) + k + 1] = t[k + 1]
  <2>1. PICK sp \in Seq(W) : sp = s \o p
    BY <1>5
  <2>2. PICK x \in W : x = t[k + 1]
    BY <1>4
  <2>3. PICK l \in Nat : l = Len(s) + k /\ l = Len(sp)
    BY <1>1, <1>5, <2>1
  <2>4. a = Append(sp, x)
    BY <2>1, <2>2
  <2>5. /\ Append(sp, x) \in Seq(W) /\ Len(Append(sp, x)) = Len(sp) + 1
        /\ \A i \in 1 .. Len(sp) : Append(sp, x)[i] = sp[i]
        /\ Append(sp, x)[Len(sp) + 1] = x
    BY AppendProperties
  <2> HIDE DEF a
  <2> QED
    BY <2>1, <2>2, <2>3, <2>4, <2>5
<1> HIDE DEF a
<1>8. \A i \in 1 .. Len(s) + (k + 1) : (s \o q)[i] = a[i]
  <2> TAKE i \in 1 .. Len(s) + (k + 1)
  <2>1. CASE i <= Len(s)
    <3>1. i \in 1 .. Len(s) + k
      BY <1>1, <2>1
    <3> QED
      BY <1>5, <1>6, <1>7, <2>1, <3>1
  <2>2. CASE ~(i <= Len(s)) /\ i <= Len(s) + k
    <3>1. i \in 1 .. Len(s) + k /\ i - Len(s) \in 1 .. k /\ i - Len(s) \in 1 .. k + 1
      BY <1>1, <2>2
    <3>2. (s \o q)[i] = q[i - Len(s)] /\ a[i] = p[i - Len(s)]
      BY <1>5, <1>6, <1>7, <2>2, <3>1
    <3> QED
      BY <1>2, <1>3, <3>1, <3>2
  <2>3. CASE i = Len(s) + (k + 1)
    <3>1. i - Len(s) = k + 1 /\ ~(i <= Len(s)) /\ i = Len(s) + k + 1 /\ k + 1 \in 1 .. k + 1
      BY <1>1, <2>3
    <3>2. (s \o q)[i] = q[k + 1]
      BY <1>6, <3>1
    <3> QED
      BY <1>3, <1>7, <3>1, <3>2
  <2>4. i <= Len(s) \/ (~(i <= Len(s)) /\ i <= Len(s) + k) \/ i = Len(s) + (k + 1)
    BY <1>1
  <2> QED
    BY <2>1, <2>2, <2>3, <2>4
<1>9. s \o q = a
  BY <1>1, <1>6, <1>7, <1>8, SeqEqual
<1> QED
  BY <1>4, <1>5, <1>9 DEF p, q, a

\* Fills for a stretch
LEMMA AddFills ==
  ASSUME NEW u, NEW P, NEW max, Sizes(u, P, max), NEW words \in Seq(Codewords(P, max)),
         NEW b, NEW m \in Nat, NEW val, NEW r \in Nat,
         HoldUpTo(BitsOf(u, P, max), words, b, m, m), Stretch(b, m, r * u, val)
  PROVE  LET fills == Fills(max, val, r)
         IN  /\ fills \in Seq(Codewords(P, max)) /\ words \o fills \in Seq(Codewords(P, max))
             /\ HoldUpTo(BitsOf(u, P, max), words \o fills, b, m + r * u, m + r * u)
             /\ fills = <<>> <=> r = 0
             /\ \A k \in DOMAIN fills : fills[k].fill
<1> DEFINE fills == Fills(max, val, r)
           W == Codewords(P, max)
           f == BitsOf(u, P, max)
<1>1. u \in Nat /\ u > 0 /\ max \in Nat \ {0} /\ val \in BOOLEAN
  BY DEF Sizes, Stretch
<1>2. PICK n, cnt, done : Parts(max, r, n, cnt, done)
  BY <1>1, PartsOf
<1>3. /\ n \in Nat /\ n = (r + max - 1) \div max /\ (n = 0 <=> r = 0)
      /\ cnt \in [1 .. n -> 1 .. max]
      /\ \A k \in 1 .. n : cnt[k] = R!AtMost(max, r - (k - 1) * max)
      /\ done \in [0 .. n -> 0 .. r] /\ done[0] = 0 /\ done[n] = r
      /\ \A k \in 1 .. n : done[k] = done[k - 1] + cnt[k]
  BY <1>2 DEF Parts
<1>4. fills = [k \in 1 .. n |-> R!Fill(val, cnt[k])]
  BY <1>3 DEF Fills
<1>5. \A k \in 1 .. n : R!Fill(val, cnt[k]) \in W
  <2> TAKE k \in 1 .. n
  <2>1. cnt[k] \in 1 .. max
    BY <1>3
  <2> QED
    BY <1>1, <2>1, BitsOfWords
<1> HIDE DEF fills, W, f
<1>6. fills \in Seq(W) /\ Len(fills) = n /\ \A k \in 1 .. n : fills[k] = R!Fill(val, cnt[k])
  <2>1. fills \in [1 .. n -> W]
    BY <1>4, <1>5
  <2>2. fills \in Seq(W) /\ Len(fills) = n
    <3>1. n \in Nat
      BY <1>3
    <3> QED
      BY ONLY <2>1, <3>1
  <2> QED
    BY <1>4, <2>2
<1> DEFINE g(k) == words \o SubSeq(fills, 1, k)
           Good(k) == g(k) \in Seq(W) /\ HoldUpTo(f, g(k), b, m + done[k] * u, m + done[k] * u)
           S == {k \in 0 .. n : Good(k)}
<1>7. g(0) = words /\ g(n) = words \o fills
  <2>1. SubSeq(fills, 1, 0) = <<>> /\ words \o <<>> = words
    BY ConcatEmptySeq DEF W
  <2>2. SubSeq(fills, 1, n) = fills
    BY <1>3, <1>6
  <2> QED
    BY <2>1, <2>2
<1>8. Good(0)
  <2>1. 0 * u = 0 /\ m + 0 = m
    BY <1>1
  <2>2. m + done[0] * u = m
    BY <1>3, <2>1
  <2> HIDE DEF g
  <2> QED
    BY <1>7, <2>2 DEF f, W
<1>9. ASSUME NEW k \in 0 .. n - 1, Good(k) PROVE Good(k + 1)
  <2>1. k + 1 \in 1 .. n /\ k \in 0 .. n /\ k + 1 \in 0 .. n /\ (k + 1) - 1 = k /\ k \in Nat
    BY <1>3
  <2>2. PICK c \in 1 .. max : c = cnt[k + 1]
    BY <1>3, <2>1
  <2>3. PICK d \in 0 .. r : d = done[k] /\ done[k + 1] = d + c /\ d + c <= r
    <3>1. done[k] \in 0 .. r /\ done[k + 1] \in 0 .. r
      BY <1>3, <2>1
    <3>2. done[k + 1] = done[k] + c
      BY <1>3, <2>1, <2>2
    <3> QED
      BY <3>1, <3>2
  <2>4. \A x \in Nat, y \in Nat, z \in Nat :
          /\ x * z \in Nat /\ (x + y) * z = x * z + y * z /\ y * z \in Nat
          /\ x <= y => x * z <= y * z
    <3>1. \A x \in Nat, y \in Nat, z \in Nat : x * z \in Nat /\ (x + y) * z = x * z + y * z /\ y * z \in Nat
      OBVIOUS
    <3>2. \A x \in Nat, y \in Nat, z \in Nat : x <= y => x * z <= y * z
      BY Z3
    <3> QED
      BY <3>1, <3>2
  <2>5. c \in Nat /\ d \in Nat /\ d + c \in Nat
    BY <1>1
  <2>6. PICK du \in Nat : du = d * u
    BY <1>1, <2>4, <2>5
  <2>7. PICK cu \in Nat : cu = c * u
    BY <1>1, <2>4, <2>5
  <2>8. PICK ru \in Nat : ru = r * u
    BY <1>1, <2>4
  <2>9. (d + c) * u = du + cu /\ du + cu <= ru
    <3>1. (d + c) * u <= r * u
      BY <1>1, <2>3, <2>4, <2>5
    <3>2. (d + c) * u = d * u + c * u
      BY <1>1, <2>4, <2>5
    <3> QED
      BY <2>6, <2>7, <2>8, <3>1, <3>2
  <2>10. Stretch(b, m + du, cu, val)
    <3>1. Stretch(b, m, ru, val) /\ du \in 0 .. ru
      BY <2>8, <2>9
    <3>2. PICK x \in Nat : x = m + du
      OBVIOUS
    <3>3. PICK y \in Nat : y = ru - du
      BY <2>9
    <3>4. Stretch(b, x, y, val)
      BY <3>1, <3>2, <3>3, StretchPart
    <3>5. cu \in 0 .. y
      BY <2>9, <3>3
    <3>6. Stretch(b, x, cu, val)
      BY <3>4, <3>5, StretchPart
    <3> QED
      BY <3>2, <3>6
  <2>11. PICK x \in Nat : x = m + du
    OBVIOUS
  <2>12. HoldUpTo(f, g(k), b, x, x) /\ g(k) \in Seq(W)
    <3>1. m + done[k] * u = x
      BY <2>3, <2>6, <2>11
    <3> HIDE DEF g
    <3> QED
      BY <1>9, <3>1
  <2>13. PICK gk \in Seq(W) : gk = g(k)
    BY <2>12
  <2>14. Stretch(b, x, c * u, val)
    BY <2>7, <2>10, <2>11
  <2>15. /\ Append(gk, R!Fill(val, c)) \in Seq(W)
         /\ HoldUpTo(f, Append(gk, R!Fill(val, c)), b, x + c * u, x + c * u)
    BY <2>12, <2>13, <2>14, AddFill DEF f, W
  <2>16. x + c * u = m + done[k + 1] * u
    <3>1. x + cu = m + (du + cu)
      BY <2>11
    <3> QED
      BY <2>3, <2>7, <2>9, <3>1
  <2>17. g(k + 1) = Append(gk, R!Fill(val, c))
    <3>1. k + 1 <= Len(fills) /\ fills[k + 1] = R!Fill(val, c)
      BY <1>6, <2>1, <2>2
    <3>2. words \in Seq(W)
      BY DEF W
    <3>3. words \o SubSeq(fills, 1, k + 1) = Append(words \o SubSeq(fills, 1, k), fills[k + 1])
      BY <1>6, <2>1, <3>1, <3>2, ConcatOneMore
    <3> QED
      BY <2>13, <3>1, <3>3
  <2> HIDE DEF g
  <2> QED
    BY <2>15, <2>16, <2>17
<1>10. 0 .. n \subseteq S
  <2>1. 0 \in Nat /\ n \in Nat
    BY <1>3
  <2>2. 0 \in S
    BY <1>8, <2>1
  <2>3. \A k \in 0 .. n - 1 : k \in S => k + 1 \in S
    <3> SUFFICES ASSUME NEW k \in 0 .. n - 1, k \in S PROVE k + 1 \in S
      OBVIOUS
    <3>1. Good(k)
      OBVIOUS
    <3>2. Good(k + 1)
      BY <1>9, <3>1
    <3>3. k + 1 \in 0 .. n
      BY <1>3
    <3> HIDE DEF Good
    <3> QED
      BY <3>2, <3>3
  <2> HIDE DEF S
  <2> QED
    BY <2>1, <2>2, <2>3, ReachedUp
<1>11. Good(n)
  <2>1. n \in S
    BY <1>3, <1>10
  <2> HIDE DEF Good
  <2> QED
    BY <2>1
<1>12. words \o fills \in Seq(W) /\ HoldUpTo(f, words \o fills, b, m + r * u, m + r * u)
  <2>1. done[n] = r
    BY <1>3
  <2> HIDE DEF g
  <2> QED
    BY <1>7, <1>11, <2>1
<1>13. fills = <<>> <=> r = 0
  <2>1. fills = <<>> <=> Len(fills) = 0
    BY <1>6
  <2> QED
    BY <1>3, <1>6, <2>1
<1>14. \A k \in DOMAIN fills : fills[k].fill
  <2>1. DOMAIN fills = 1 .. n
    BY <1>4
  <2> QED
    BY <1>6, <2>1 DEF R!Fill
<1> QED
  BY <1>6, <1>12, <1>13, <1>14 DEF fills, W, f

\* Equal bits at the front of a literal
LEMMA FrontOfLiteral ==
  ASSUME NEW P \in Nat, NEW b, NEW m \in Nat, NEW c \in 0 .. P, NEW val, Stretch(b, m, c, val)
  PROVE  BitsFrom(P, b, m, m + c) = IF val THEN 0 .. c - 1 ELSE {}
<1>1. c \in Nat /\ c <= P
  OBVIOUS
<1>2. PICK n \in Nat : n = m + c
  BY <1>1
<1>3. PICK z \in Nat : z = 0 /\ z = m - m
  <2>1. 0 \in Nat /\ 0 = m - m
    OBVIOUS
  <2> QED
    BY <2>1
<1>4. m + c <= m + P /\ m <= m
  BY <1>1
<1>5. BitsFrom(P, b, m, n) = Grown(BitsFrom(P, b, m, m), val, z, c)
  BY <1>1, <1>2, <1>3, <1>4, LiteralGrows
<1>6. BitsFrom(P, b, m, m) = {}
  <2>1. \A i \in 0 .. P - 1 : m + i \notin Prefix(b, m)
    <3> TAKE i \in 0 .. P - 1
    <3>1. ~(m + i < m)
      OBVIOUS
    <3> QED
      BY <3>1 DEF Prefix
  <2> QED
    BY <2>1 DEF BitsFrom
<1>7. z + c - 1 = c - 1
  BY <1>1, <1>3
<1>8. Grown({}, val, z, c) = IF val THEN 0 .. c - 1 ELSE {}
  BY <1>3, <1>7 DEF Grown
<1> QED
  BY <1>2, <1>5, <1>6, <1>8

\* A word behind other words
LEMMA ConcatAppend ==
  ASSUME NEW W, NEW s \in Seq(W), NEW t \in Seq(W), NEW w \in W
  PROVE  s \o Append(t, w) = Append(s \o t, w)
<1>1. <<w>> \in Seq(W)
  OBVIOUS
<1>2. Append(t, w) = t \o <<w>>
  BY AppendIsConcat
<1>3. s \o t \in Seq(W)
  BY ConcatProperties
<1>4. Append(s \o t, w) = (s \o t) \o <<w>>
  BY <1>3, AppendIsConcat
<1> QED
  BY <1>1, <1>2, <1>4, ConcatAssociative

\* The rest of a run: fills of whole literals, then a literal
RestOf(P, max, val, len) ==
  LET fills == Fills(max, val, len \div P)
      tail  == len % P
  IN  IF tail = 0 THEN fills ELSE Append(fills, R!Literal(IF val THEN 0 .. tail - 1 ELSE {}))

RoomBehind(P, len) == IF len % P = 0 THEN 0 ELSE P - (len % P)

\* The fills and the literal that stand for a run hold the bits of the run,
\* and the last of them has as many bits left as the run leaves of its literal.
LEMMA AddRest ==
  ASSUME NEW P, NEW max, Sizes(P, P, max), NEW words \in Seq(Codewords(P, max)),
         NEW b, NEW m \in Nat, NEW val, NEW len \in Nat, len > 0,
         HoldUpTo(BitsOf(P, P, max), words, b, m, m), Stretch(b, m, len, val)
  PROVE  LET rest == RestOf(P, max, val, len)
             n    == words \o rest
             room == RoomBehind(P, len)
         IN  /\ n \in Seq(Codewords(P, max)) /\ n # <<>> /\ room \in 0 .. P - 1
             /\ R!Last(rest).fill <=> room = 0
             /\ room # 0 => room = P - (len % P)
             /\ room # 0 => ~R!Last(n).fill
             /\ HoldUpTo(BitsOf(P, P, max), n, b, m + len, (m + len) + room)
<1> DEFINE W == Codewords(P, max)
           f == BitsOf(P, P, max)
           reps == len \div P
           tail == len % P
           fills == Fills(max, val, reps)
           rest == RestOf(P, max, val, len)
           n == words \o rest
           room == RoomBehind(P, len)
<1>1. P \in Nat /\ P > 0 /\ val \in BOOLEAN
  BY DEF Sizes, Stretch
<1>2. reps \in Nat /\ tail \in 0 .. P - 1 /\ reps * P \in Nat /\ len = reps * P + tail
  <2>1. reps \in Nat /\ tail \in 0 .. P - 1 /\ P * reps \in Nat /\ len = P * reps + tail
    BY <1>1, BlockOf
  <2> HIDE DEF reps, tail
  <2>2. P * reps = reps * P
    BY <1>1, <2>1
  <2> QED
    BY <2>1, <2>2
<1> HIDE DEF reps, tail
<1>3. PICK q \in 0 .. len : q = reps * P /\ len - q = tail
  <2>1. reps * P \in 0 .. len /\ len - reps * P = tail
    BY <1>2
  <2> QED
    BY <2>1
<1>4. PICK k \in Nat : k = m + q /\ m + len = k + tail
  <2>1. m + q \in Nat /\ m + len = (m + q) + tail
    <3>1. tail \in Nat
      BY <1>2
    <3> QED
      BY <1>3, <3>1
  <2> QED
    BY <2>1
<1>5. Stretch(b, m, q, val) /\ Stretch(b, k, tail, val)
  BY <1>3, <1>4, StretchPart
<1>6. /\ fills \in Seq(W) /\ words \o fills \in Seq(W)
      /\ HoldUpTo(f, words \o fills, b, k, k)
      /\ fills = <<>> <=> reps = 0
      /\ \A i \in DOMAIN fills : fills[i].fill
  <2>1. Stretch(b, m, reps * P, val)
    BY <1>3, <1>5
  <2>2. PICK r \in Nat : r = reps
    BY <1>2
  <2>3. Stretch(b, m, r * P, val)
    BY <2>1, <2>2
  <2>4. /\ Fills(max, val, r) \in Seq(W) /\ words \o Fills(max, val, r) \in Seq(W)
        /\ HoldUpTo(f, words \o Fills(max, val, r), b, m + r * P, m + r * P)
        /\ Fills(max, val, r) = <<>> <=> r = 0
        /\ \A i \in DOMAIN Fills(max, val, r) : Fills(max, val, r)[i].fill
    BY <2>3, AddFills
  <2>5. fills = Fills(max, val, r) /\ k = m + r * P
    BY <1>3, <1>4, <2>2
  <2> HIDE DEF fills, W, f
  <2> QED
    BY <2>2, <2>4, <2>5
<1>7. CASE tail = 0
  <2>1. rest = fills /\ room = 0
    BY <1>7 DEF RestOf, RoomBehind, reps, tail
  <2>2. reps # 0
    <3>1. 0 * P = 0
      BY <1>1
    <3> QED
      BY <1>2, <1>7, <3>1
  <2> HIDE DEF fills, rest
  <2>3. fills # <<>> /\ fills \in Seq(W)
    BY <1>6, <2>2
  <2>4. Len(fills) \in DOMAIN fills
    <3>1. Len(fills) \in Nat \ {0} /\ DOMAIN fills = 1 .. Len(fills)
      BY <2>3, EmptySeq
    <3> QED
      BY <3>1
  <2>5. R!Last(rest).fill
    BY <1>6, <2>1, <2>4 DEF R!Last
  <2>6. n # <<>>
    BY <2>1, <2>3, ConcatEqualIffEmpty DEF W
  <2>7. k = m + len /\ k = (m + len) + room
    BY <1>1, <1>4, <1>7, <2>1
  <2>8. 0 \in 0 .. P - 1
    BY <1>1
  <2> HIDE DEF n, room
  <2>9. n = words \o fills
    BY <2>1 DEF n
  <2> QED
    BY <1>6, <2>1, <2>5, <2>6, <2>7, <2>8, <2>9 DEF n, rest, room, W, f
<1>8. CASE tail # 0
  <2> DEFINE l == R!Literal(IF val THEN 0 .. tail - 1 ELSE {})
  <2>1. rest = Append(fills, l) /\ room = P - tail /\ room # 0 /\ room \in 0 .. P - 1
    BY <1>1, <1>2, <1>8 DEF RestOf, RoomBehind, reps, tail
  <2>2. BitsFrom(P, b, k, k + tail) = IF val THEN 0 .. tail - 1 ELSE {}
    <3>1. tail \in 0 .. P
      BY <1>1, <1>2
    <3> QED
      BY <1>1, <1>5, <3>1, FrontOfLiteral
  <2>3. l = R!Literal(BitsFrom(P, b, k, k + tail)) /\ ~l.fill
    BY <2>2 DEF R!Literal
  <2>4. l \in W
    <3>1. BitsFrom(P, b, k, k + tail) \in SUBSET (0 .. P - 1)
      BY DEF BitsFrom
    <3> QED
      BY <2>3, <3>1, BitsOfWords DEF W
  <2> HIDE DEF fills, rest, l
  <2>5. PICK z \in Nat : z = k + tail /\ k <= z
    <3>1. k + tail \in Nat /\ k <= k + tail
      BY <1>2
    <3> QED
      BY <3>1
  <2>6. /\ Append(words \o fills, l) \in Seq(W)
        /\ HoldUpTo(f, Append(words \o fills, l), b, z, k + P)
    BY <1>6, <2>3, <2>5, AddLiteral DEF W, f
  <2>7. n = Append(words \o fills, l)
    <3>1. words \in Seq(W)
      BY DEF W
    <3> HIDE DEF W
    <3> QED
      BY <1>6, <2>1, <2>4, <3>1, ConcatAppend
  <2>8. R!Last(rest) = l /\ R!Last(n) = l /\ n # <<>>
    <3>1. \A s \in Seq(W) : R!Last(Append(s, l)) = l /\ Append(s, l) # <<>>
      <4> TAKE s \in Seq(W)
      <4>1. Len(Append(s, l)) = Len(s) + 1 /\ Append(s, l)[Len(s) + 1] = l /\ Append(s, l) # <<>>
        BY <2>4, AppendProperties
      <4> QED
        BY <4>1 DEF R!Last
    <3> HIDE DEF n
    <3> QED
      BY <1>6, <2>1, <2>7, <3>1
  <2>9. z = m + len /\ k + P = (m + len) + room
    <3>1. tail \in Nat
      BY <1>2
    <3> HIDE DEF room
    <3> QED
      BY <1>1, <1>4, <2>1, <2>5, <3>1
  <2>10. room = P - (len % P)
    BY <2>1 DEF tail
  <2> HIDE DEF n, room
  <2> QED
    BY <2>1, <2>3, <2>5, <2>6, <2>7, <2>8, <2>9, <2>10 DEF n, rest, room, W, f
<1> QED
  BY <1>7, <1>8

-----------------------------------------------------------------------------
\* What has been encoded, with its length, is the first m bits.
Kept(u, P, max, b, e, m) ==
  /\ e \in [words : Seq(Codewords(P, max)), length : {m}, remaining : 0 .. P - 1]
  /\ HoldUpTo(BitsOf(u, P, max), e.words, b, m, m + e.remaining)
  /\ e.remaining # 0 => e.words # <<>> /\ ~R!Last(e.words).fill

\* What is left of a run, and the part of it that has been encoded
Staged(u, P, max, b, s, m, len) ==
  \E d \in 0 .. len : s.len = len - d /\ Kept(u, P, max, b, s.e, m + d)

\* No words hold no bits.
LEMMA KeptNothing ==
  ASSUME NEW u, NEW P, NEW max, Sizes(u, P, max), NEW b, NEW e, NEW m \in Nat,
         Kept(u, P, max, b, e, m), e.words = <<>>
  PROVE  m = 0 /\ e.remaining = 0
<1> DEFINE f == BitsOf(u, P, max)
           v == ViewBy(f, e.words)
<1>1. P \in Nat /\ e.remaining \in 0 .. P - 1
  BY DEF Kept, Sizes
<1>2. Spells(v, Prefix(b, m), m + e.remaining)
  BY DEF Kept, HoldUpTo
<1>3. v = <<>> /\ Len(v) = 0
  BY DEF ViewBy
<1>4. PICK at : Placed(v, at, Prefix(b, m)) /\ at[Len(v) + 1] = m + e.remaining
  <2> HIDE DEF v
  <2> QED
    BY <1>2 DEF Spells
<1>5. at[1] = 0 /\ Len(v) + 1 = 1
  <2> HIDE DEF v
  <2> QED
    BY <1>3, <1>4 DEF Placed
<1>6. m + e.remaining = 0
  <2> HIDE DEF v
  <2> QED
    BY <1>4, <1>5
<1> QED
  BY <1>1, <1>6

XP == Xah!payload_bit_cnt
XM == Xah!max_fill_repetitions

\* The sizes of an XAH word are sizes the proofs can count with.
LEMMA XahSizes == XP \in Nat /\ XP > 1 /\ XM \in Nat /\ XM > 0 /\ Sizes(XP, XP, XM)
<1>1. XahBits \in Nat /\ XahBits > 2
  BY WordCodecsAssumption
<1>2. XP \in Nat /\ XP > 1
  BY <1>1 DEF XP, Xah!payload_bit_cnt
<1>3. PICK k \in Nat : XahBits - 2 = k + 1
  <2>1. XahBits - 3 \in Nat /\ XahBits - 2 = (XahBits - 3) + 1
    BY <1>1
  <2> QED
    BY <2>1
<1>4. 2^(k + 1) = 2 * 2^k /\ 2^k \in Nat /\ 2^k > 0
  BY PowerOfTwo, PowerStep
<1>5. PICK p \in Nat : p = 2^k /\ p > 0
  BY <1>4
<1>6. XM = 2 * p - 1
  BY <1>3, <1>4, <1>5 DEF XM, Xah!max_fill_repetitions
<1>7. XM \in Nat /\ XM > 0
  BY <1>5, <1>6
<1> QED
  BY <1>2, <1>7 DEF Sizes

\* The helpers of xah are those that all codecs share.
LEMMA XahHelpers ==
  /\ \A words, w : Xah!ReplaceLast(words, w) = R!ReplaceLast(words, w)
  /\ \A words : Xah!Last(words) = R!Last(words)
  /\ \A val, c : Xah!Fill(val, c) = R!Fill(val, c)
  /\ \A ones : Xah!Literal(ones) = R!Literal(ones)
  /\ \A x, y : Xah!AtMost(x, y) = R!AtMost(x, y)
<1>1. \A words, w : Xah!ReplaceLast(words, w) = R!ReplaceLast(words, w)
  BY DEF Xah!ReplaceLast, R!ReplaceLast, Xah!Front, R!Front
<1>2. \A words : Xah!Last(words) = R!Last(words)
  BY DEF Xah!Last, R!Last
<1>3. \A val, c : Xah!Fill(val, c) = R!Fill(val, c)
  BY DEF Xah!Fill, R!Fill
<1>4. \A ones : Xah!Literal(ones) = R!Literal(ones)
  BY DEF Xah!Literal, R!Literal
<1>5. \A x, y : Xah!AtMost(x, y) = R!AtMost(x, y)
  BY DEF Xah!AtMost, R!AtMost
<1> QED
  BY <1>1, <1>2, <1>3, <1>4, <1>5

\* AppendRest: the run is encoded to its end.
LEMMA XahRest ==
  ASSUME NEW b, NEW e, NEW m \in Nat, Kept(XP, XP, XM, b, e, m), NEW val, NEW len \in Nat,
         Stretch(b, m, len, val), len # 0 => e.remaining = 0
  PROVE  Kept(XP, XP, XM, b, Xah!AppendRest(e, val, len), m + len)
<1>0. XP \in Nat /\ XP > 1 /\ Sizes(XP, XP, XM)
  BY XahSizes
<1>1. CASE len = 0
  <2>1. Xah!AppendRest(e, val, len) = e /\ m + len = m
    BY <1>1 DEF Xah!AppendRest
  <2> QED
    BY <2>1
<1>2. CASE len # 0
  <2> DEFINE rest == RestOf(XP, XM, val, len)
             n    == e.words \o rest
             room == RoomBehind(XP, len)
  <2>1. /\ e.words \in Seq(Codewords(XP, XM)) /\ e.length = m /\ e.remaining = 0
        /\ HoldUpTo(BitsOf(XP, XP, XM), e.words, b, m, m + e.remaining)
    BY <1>2 DEF Kept
  <2>2. m + e.remaining = m /\ len > 0
    BY <1>2, <2>1
  <2>3. HoldUpTo(BitsOf(XP, XP, XM), e.words, b, m, m)
    BY <2>1, <2>2
  <2>4. /\ n \in Seq(Codewords(XP, XM)) /\ n # <<>> /\ room \in 0 .. XP - 1
        /\ R!Last(rest).fill <=> room = 0
        /\ room # 0 => room = XP - (len % XP)
        /\ room # 0 => ~R!Last(n).fill
        /\ HoldUpTo(BitsOf(XP, XP, XM), n, b, m + len, (m + len) + room)
    BY <1>0, <2>1, <2>2, <2>3, AddRest
  <2>5. Xah!Rest(val, len) = rest
    BY XahHelpers DEF Xah!Rest, RestOf, Fills, XP, XM
  <2> DEFINE a == Xah!AppendRest(e, val, len)
  <2> HIDE DEF rest
  <2>6. a = [words |-> n, length |-> m + len, remaining |-> room]
    <3>1. a = [words     |-> e.words \o rest,
               length    |-> e.length + len,
               remaining |-> IF Xah!Last(rest).fill THEN e.remaining ELSE XP - (len % XP)]
      BY <1>2, <2>5 DEF Xah!AppendRest, XP
    <3>2. (IF Xah!Last(rest).fill THEN e.remaining ELSE XP - (len % XP)) = room
      <4>1. Xah!Last(rest) = R!Last(rest)
        BY XahHelpers
      <4> HIDE DEF room, n
      <4> QED
        BY <2>1, <2>4, <4>1
    <3> QED
      BY <2>1, <3>1, <3>2
  <2> HIDE DEF n, room, a
  <2> QED
    BY <2>4, <2>6 DEF Kept, a
<1> QED
  BY <1>1, <1>2

\* As many whole literals as fit
LEMMA WholeLiterals ==
  ASSUME NEW len \in Nat, NEW room \in Nat, NEW rep, rep = R!AtMost(room, len \div XP)
  PROVE  /\ rep \in 0 .. room /\ rep * XP \in 0 .. len
         /\ len >= XP /\ room > 0 => rep > 0
<1>1. XP \in Nat /\ XP > 1
  BY XahSizes
<1>2. len \div XP \in Nat /\ len % XP \in 0 .. XP - 1 /\ XP * (len \div XP) \in Nat
      /\ len = XP * (len \div XP) + (len % XP)
  BY <1>1, BlockOf
<1>3. PICK k \in Nat : k = len \div XP
  BY <1>2
<1>4. rep \in Nat /\ rep <= room /\ rep <= k /\ (rep = room \/ rep = k)
  BY <1>3 DEF R!AtMost
<1>5. \A x \in Nat, y \in Nat, z \in Nat : x <= y => x * z <= z * y /\ x * z \in Nat
  <2>1. \A x \in Nat, y \in Nat, z \in Nat : x <= y => x * z <= y * z
    BY Z3
  <2>2. \A x \in Nat, z \in Nat : x * z \in Nat /\ x * z = z * x
    OBVIOUS
  <2> QED
    BY <2>1, <2>2
<1>6. PICK w \in Nat : w = XP * k
  BY <1>2, <1>3
<1>7. w <= len
  BY <1>1, <1>2, <1>3, <1>6
<1>8. rep * XP \in Nat /\ rep * XP <= w
  BY <1>1, <1>3, <1>4, <1>5, <1>6
<1>9. len >= XP => k > 0
  <2> SUFFICES ASSUME len >= XP, k = 0 PROVE FALSE
    BY <1>3
  <2>1. XP * k = 0
    BY <1>1
  <2> QED
    BY <1>1, <1>2, <1>3, <2>1
<1> QED
  BY <1>4, <1>7, <1>8, <1>9

\* FirstWord: a fill, or a literal that takes the whole run
LEMMA XahFirst ==
  ASSUME NEW b, NEW val, NEW len \in Nat, len > 0, Stretch(b, 0, len, val)
  PROVE  LET s == Xah!FirstWord(val, len)
         IN  /\ Staged(XP, XP, XM, b, s, 0, len)
             /\ s.len # 0 => s.e.words # <<>> /\ R!Last(s.e.words).fill /\ s.e.remaining = 0
<1> DEFINE s == Xah!FirstWord(val, len)
           f == BitsOf(XP, XP, XM)
           W == Codewords(XP, XM)
<1>0. XP \in Nat /\ XP > 1 /\ XM \in Nat /\ XM > 0 /\ Sizes(XP, XP, XM) /\ val \in BOOLEAN
  BY XahSizes DEF Stretch
<1>1. <<>> \in Seq(W) /\ HoldUpTo(f, <<>>, b, 0, 0)
  <2>1. ViewBy(f, <<>>) = <<>>
    BY DEF ViewBy
  <2> HIDE DEF f
  <2> QED
    BY <2>1, SpellsNothing DEF HoldUpTo
<1> HIDE DEF s
<1>2. CASE len >= XP
  <2>1. PICK rep : rep = R!AtMost(XM, len \div XP)
    OBVIOUS
  <2>2. rep \in 0 .. XM /\ rep * XP \in 0 .. len /\ rep > 0
    BY <1>0, <1>2, <2>1, WholeLiterals
  <2>3. PICK d \in 0 .. len : d = rep * XP
    BY <2>2
  <2>4. s = [e |-> [words |-> <<R!Fill(val, rep)>>, length |-> d, remaining |-> 0], len |-> len - d]
    BY <1>2, <2>1, <2>3, XahHelpers DEF s, Xah!FirstWord, XP, XM
  <2>5. rep \in 1 .. XM
    BY <1>0, <2>2
  <2>6. Stretch(b, 0, rep * XP, val)
    BY <2>3, StretchPart
  <2>7. /\ Append(<<>>, R!Fill(val, rep)) \in Seq(W)
        /\ HoldUpTo(f, Append(<<>>, R!Fill(val, rep)), b, 0 + rep * XP, 0 + rep * XP)
    BY <1>0, <1>1, <2>5, <2>6, AddFill
  <2>8. Append(<<>>, R!Fill(val, rep)) = <<R!Fill(val, rep)>>
    OBVIOUS
  <2>9. 0 + rep * XP = d /\ 0 + d = d /\ d + 0 = d /\ d \in Nat
    BY <2>3
  <2>10. PICK words \in Seq(W) : /\ words = <<R!Fill(val, rep)>>
                                 /\ HoldUpTo(f, words, b, d, d)
    BY <2>7, <2>8, <2>9
  <2>11. words # <<>> /\ R!Last(words).fill
    BY <2>10 DEF R!Last, R!Fill
  <2>12. s.e = [words |-> words, length |-> d, remaining |-> 0] /\ s.len = len - d
    BY <2>4, <2>10
  <2>13. Kept(XP, XP, XM, b, s.e, 0 + d)
    <3>1. 0 \in 0 .. XP - 1
      BY <1>0
    <3> QED
      BY <2>9, <2>10, <2>12, <3>1 DEF Kept
  <2>14. Staged(XP, XP, XM, b, s, 0, len)
    BY <2>12, <2>13 DEF Staged
  <2> QED
    BY <2>11, <2>12, <2>14 DEF s
<1>3. CASE ~(len >= XP)
  <2> DEFINE l == R!Literal(IF val THEN 0 .. len - 1 ELSE {})
  <2>1. s = [e |-> [words |-> <<l>>, length |-> len, remaining |-> XP - len], len |-> 0]
    BY <1>3, XahHelpers DEF s, Xah!FirstWord, XP, XM
  <2>2. len \in 0 .. XP /\ XP - len \in 0 .. XP - 1 /\ 0 + len = len /\ len - len = 0 /\ len \in 0 .. len
    BY <1>0, <1>3
  <2>3. BitsFrom(XP, b, 0, 0 + len) = IF val THEN 0 .. len - 1 ELSE {}
    BY <1>0, <2>2, FrontOfLiteral
  <2>4. l = R!Literal(BitsFrom(XP, b, 0, len)) /\ ~l.fill
    BY <2>2, <2>3 DEF R!Literal
  <2> HIDE DEF l
  <2>5. Append(<<>>, l) \in Seq(W) /\ HoldUpTo(f, Append(<<>>, l), b, len, 0 + XP)
    <3>1. PICK z \in Nat : z = 0 /\ z <= len
      <4>1. 0 \in Nat /\ 0 <= len
        OBVIOUS
      <4> QED
        BY <4>1
    <3>2. HoldUpTo(f, <<>>, b, z, z) /\ l = R!Literal(BitsFrom(XP, b, z, len))
      BY <1>1, <2>4, <3>1
    <3>3. Append(<<>>, l) \in Seq(W) /\ HoldUpTo(f, Append(<<>>, l), b, len, z + XP)
      BY <1>0, <1>1, <3>1, <3>2, AddLiteral
    <3> QED
      BY <3>1, <3>3
  <2>6. Append(<<>>, l) = <<l>> /\ 0 + XP = (0 + len) + (XP - len)
    BY <1>0
  <2>7. PICK words \in Seq(W) : /\ words = <<l>>
                                /\ HoldUpTo(f, words, b, 0 + len, (0 + len) + (XP - len))
    BY <2>2, <2>5, <2>6
  <2>8. words # <<>> /\ ~R!Last(words).fill
    BY <2>4, <2>7 DEF R!Last
  <2>9. s.e = [words |-> words, length |-> len, remaining |-> XP - len] /\ s.len = 0
    BY <2>1, <2>7
  <2>10. Kept(XP, XP, XM, b, s.e, 0 + len)
    BY <2>2, <2>7, <2>8, <2>9 DEF Kept
  <2>11. Staged(XP, XP, XM, b, s, 0, len)
    BY <2>2, <2>9, <2>10 DEF Staged
  <2> QED
    BY <2>9, <2>11 DEF s
<1> QED
  BY <1>2, <1>3

\* ExtendFill: the last fill takes part of the run, or nothing is done.
LEMMA XahExtend ==
  ASSUME NEW b, NEW e, NEW m \in Nat, Kept(XP, XP, XM, b, e, m), e.words # <<>>,
         NEW val, NEW len \in Nat, Stretch(b, m, len, val)
  PROVE  LET s == Xah!ExtendFill(e, val, len)
         IN  /\ Staged(XP, XP, XM, b, s, m, len)
             /\ s.e.words # <<>>
             /\ s.e.remaining # 0 => s.e = e /\ s.len = len
<1> DEFINE s == Xah!ExtendFill(e, val, len)
           w == R!Last(e.words)
           f == BitsOf(XP, XP, XM)
           W == Codewords(XP, XM)
<1>0. XP \in Nat /\ XP > 1 /\ XM \in Nat /\ XM > 0 /\ Sizes(XP, XP, XM) /\ val \in BOOLEAN
  BY XahSizes DEF Stretch
<1>1. /\ e \in [words : Seq(W), length : {m}, remaining : 0 .. XP - 1]
      /\ HoldUpTo(f, e.words, b, m, m + e.remaining)
      /\ e.remaining # 0 => e.words # <<>> /\ ~w.fill
  BY DEF Kept
<1> HIDE DEF s
<1>2. CASE ~(len >= XP /\ w.fill /\ w.val = val)
  <2>1. s = [e |-> e, len |-> len]
    BY <1>2, XahHelpers DEF s, Xah!ExtendFill, XP
  <2>2. 0 \in 0 .. len /\ len - 0 = len /\ m + 0 = m
    OBVIOUS
  <2>3. Staged(XP, XP, XM, b, s, m, len)
    BY <2>1, <2>2 DEF Staged
  <2> QED
    BY <2>1, <2>3 DEF s
<1>3. CASE len >= XP /\ w.fill /\ w.val = val
  <2>1. e.remaining = 0 /\ m + e.remaining = m /\ HoldUpTo(f, e.words, b, m, m)
    <3>1. e.remaining = 0
      BY <1>1, <1>3
    <3>2. m + e.remaining = m
      BY <3>1
    <3> QED
      BY <1>1, <3>1, <3>2
  <2>2. w \in W
    BY <1>0, <1>1, BitsOfWords, ViewFront
  <2>3. w.cnt \in 1 .. XM
    BY <1>3, <2>2, KindOfWord
  <2>4. PICK room \in Nat : room = XM - w.cnt
    <3> HIDE DEF w
    <3>1. XM - w.cnt \in Nat
      BY <1>0, <2>3
    <3> QED
      BY <3>1
  <2>5. PICK rep : rep = R!AtMost(room, len \div XP)
    OBVIOUS
  <2>6. rep \in 0 .. room /\ rep * XP \in 0 .. len
    BY <2>5, WholeLiterals
  <2>7. PICK d \in 0 .. len : d = rep * XP
    BY <2>6
  <2> DEFINE n == R!ReplaceLast(e.words, R!Fill(w.val, w.cnt + rep))
  <2>8. s = [e |-> [e EXCEPT !.words = n, !.length = m + d], len |-> len - d]
    <3>1. s = [e |-> [e EXCEPT !.words = R!ReplaceLast(@, R!Fill(val, w.cnt + rep)),
                               !.length = @ + d], len |-> len - d]
      BY <1>3, <2>4, <2>5, <2>7, XahHelpers DEF s, Xah!ExtendFill, XP, XM
    <3>2. e.length = m
      BY <1>1
    <3> QED
      BY <1>1, <1>3, <3>1, <3>2
  <2>9. Stretch(b, m, rep * XP, w.val)
    BY <1>3, <2>7, StretchPart
  <2>10. rep \in Nat /\ w.cnt + rep <= XM
    <3>1. PICK x \in 1 .. XM : x = w.cnt
      BY <2>3
    <3>2. \A y \in Nat : y = XM - x => \A z \in 0 .. y : z \in Nat /\ x + z <= XM
      BY <1>0
    <3>3. room = XM - x
      BY <2>4, <3>1
    <3>4. rep \in Nat /\ x + rep <= XM
      BY <2>6, <3>2, <3>3
    <3> QED
      BY <3>1, <3>4
  <2>11. m \in 0 .. N
    BY DEF Stretch
  <2>12. /\ n \in Seq(W) /\ n # <<>> /\ R!Last(n) = R!Fill(w.val, w.cnt + rep)
         /\ HoldUpTo(f, n, b, m + rep * XP, m + rep * XP)
    BY <1>0, <1>1, <1>3, <2>1, <2>9, <2>10, <2>11, GrowFill
  <2> HIDE DEF n
  <2>13. s.e = [words |-> n, length |-> m + d, remaining |-> 0] /\ s.len = len - d
    BY <1>1, <2>1, <2>8
  <2>14. 0 \in 0 .. XP - 1 /\ (m + d) + 0 = m + d
    BY <1>0
  <2>15. Kept(XP, XP, XM, b, s.e, m + d)
    BY <2>7, <2>12, <2>13, <2>14 DEF Kept
  <2>16. Staged(XP, XP, XM, b, s, m, len)
    BY <2>13, <2>15 DEF Staged
  <2> QED
    BY <2>12, <2>13, <2>16 DEF s
<1> QED
  BY <1>2, <1>3

\* A literal with bits of two runs is neither all zeros nor all ones.
LEMMA MixedLiteral ==
  ASSUME NEW P \in Nat, NEW b \in [R!Pos -> BOOLEAN], NEW q \in Nat, NEW m \in Nat, NEW n \in Nat,
         q < m, m < q + P, m < n, m < N, b[m - 1] # b[m]
  PROVE  BitsFrom(P, b, q, n) # {} /\ BitsFrom(P, b, q, n) # 0 .. P - 1
<1> DEFINE ones == BitsFrom(P, b, q, n)
<1>0. N \in Nat
  BY WordCodecsAssumption
<1>1. /\ m - 1 \in 0 .. N - 1 /\ m \in 0 .. N - 1 /\ m - 1 < n
      /\ (m - 1) - q \in 0 .. P - 1 /\ m - q \in 0 .. P - 1
      /\ q + ((m - 1) - q) = m - 1 /\ q + (m - q) = m
  BY <1>0
<1>2. (m - 1) - q \in ones <=> b[m - 1]
  BY <1>1 DEF BitsFrom, Prefix, OnesOf, R!Pos
<1>3. m - q \in ones <=> b[m]
  BY <1>1 DEF BitsFrom, Prefix, OnesOf, R!Pos
<1>4. b[m - 1] \in BOOLEAN /\ b[m] \in BOOLEAN
  BY <1>1 DEF R!Pos
<1> HIDE DEF ones
<1>5. (m - 1) - q \in ones <=> ~(m - q \in ones)
  <2>1. \A x \in BOOLEAN, y \in BOOLEAN : x # y => (x <=> ~y)
    OBVIOUS
  <2>2. b[m - 1] <=> ~b[m]
    BY <1>4, <2>1
  <2> QED
    BY <1>2, <1>3, <2>2
<1>6. ones # {} /\ ones # 0 .. P - 1
  BY <1>1, <1>5
<1> QED
  BY <1>6 DEF ones

\* FillUpLiteral: the last literal takes part of the run, or nothing is done;
\* a literal that has room begins with bits of another run, so it never becomes
\* a fill.
LEMMA XahFillUp ==
  ASSUME NEW b, NEW e, NEW m \in Nat, Kept(XP, XP, XM, b, e, m), e.words # <<>>,
         NEW val, NEW len \in Nat, len > 0, Stretch(b, m, len, val),
         e.remaining # 0 => m = 0 \/ b[m - 1] # val
  PROVE  LET s == Xah!FillUpLiteral(e, val, len)
         IN  /\ Staged(XP, XP, XM, b, s, m, len)
             /\ s.len # 0 => s.e.remaining = 0
<1> DEFINE s == Xah!FillUpLiteral(e, val, len)
           w == R!Last(e.words)
           f == BitsOf(XP, XP, XM)
           W == Codewords(XP, XM)
<1>0. XP \in Nat /\ XP > 1 /\ XM \in Nat /\ XM > 0 /\ Sizes(XP, XP, XM) /\ val \in BOOLEAN
  BY XahSizes DEF Stretch
<1>1. /\ e \in [words : Seq(W), length : {m}, remaining : 0 .. XP - 1]
      /\ HoldUpTo(f, e.words, b, m, m + e.remaining)
      /\ e.remaining # 0 => e.words # <<>> /\ ~w.fill
  BY DEF Kept
<1> HIDE DEF s
<1>2. CASE e.remaining = 0
  <2>1. s = [e |-> e, len |-> len]
    BY <1>2, XahHelpers DEF s, Xah!FillUpLiteral
  <2>2. 0 \in 0 .. len /\ len - 0 = len /\ m + 0 = m
    OBVIOUS
  <2>3. Staged(XP, XP, XM, b, s, m, len)
    BY <2>1, <2>2 DEF Staged
  <2> QED
    BY <1>2, <2>1, <2>3 DEF s
<1>3. CASE e.remaining # 0
  <2>1. PICK r \in 1 .. XP - 1 : r = e.remaining
    BY <1>0, <1>1, <1>3
  <2>2. PICK c \in Nat : c = R!AtMost(r, len) /\ c <= r /\ c <= len /\ c > 0 /\ (c = r \/ c = len)
    BY <1>0, <2>1 DEF R!AtMost
  <2>0. PICK begin \in Nat : begin = XP - r
    <3>1. XP - r \in Nat
      BY <1>0
    <3> QED
      BY <3>1
  <2> DEFINE ones == Grown(w.ones, val, begin, c)
             n    == R!ReplaceLast(e.words, R!Literal(ones))
  <2>3. Stretch(b, m, c, val)
    <3>1. c \in 0 .. len
      BY <2>2
    <3> QED
      BY <3>1, StretchPart
  <2>4. r \in 0 .. XP /\ c \in 0 .. r /\ HoldUpTo(f, e.words, b, m, m + r) /\ ~w.fill
    BY <1>0, <1>1, <1>3, <2>1, <2>2
  <2>5. /\ n \in Seq(W) /\ n # <<>> /\ R!Last(n) = R!Literal(ones)
        /\ HoldUpTo(f, n, b, m + c, m + r)
        /\ \E q \in Nat : q <= m /\ m + r = q + XP /\ ones = BitsFrom(XP, b, q, m + c)
    <3>1. e.words \in Seq(W) /\ e.words # <<>>
      BY <1>1
    <3>2. XP \in Nat /\ r \in 0 .. XP /\ c \in 0 .. r /\ begin = XP - r
      BY <1>0, <2>0, <2>4
    <3>3. HoldUpTo(f, e.words, b, m, m + r) /\ ~R!Last(e.words).fill /\ Sizes(XP, XP, XM)
      BY <1>0, <2>4
    <3>4. LiteralTakes(XP, XP, XM, e.words, b, m, r, c, ones)
      <4>1. PICK P \in Nat : P = XP
        BY <1>0
      <4>2. Sizes(P, P, XM) /\ HoldUpTo(BitsOf(P, P, XM), e.words, b, m, m + r)
        BY <3>3, <4>1
      <4>3. e.words \in Seq(Codewords(P, XM)) /\ r \in 0 .. P /\ begin = P - r /\ c \in 0 .. r
        BY <3>1, <3>2, <4>1
      <4>4. LiteralTakes(P, P, XM, e.words, b, m, r, c,
                         Grown(R!Last(e.words).ones, val, begin, c))
        <5> HIDE DEF n, ones, w, f, W
        <5> QED
          BY <2>3, <3>1, <3>3, <4>1, <4>2, <4>3, GrowLiteral
      <4> QED
        BY <4>1, <4>4
    <3> QED
      BY <3>4 DEF LiteralTakes
  <2> HIDE DEF ones
  <2>6. PICK q \in Nat : q <= m /\ m + r = q + XP /\ ones = BitsFrom(XP, b, q, m + c)
    BY <2>5
  <2>7. ones # {} /\ ones # 0 .. XP - 1
    <3>1. q < m /\ m < q + XP /\ m # 0
      <4>1. PICK P \in Nat : P = XP
        BY <1>0
      <4>2. r \in 1 .. P - 1 /\ m + r = q + P
        BY <2>6, <4>1
      <4>3. q < m /\ m < q + P /\ m # 0
        BY <4>2
      <4> QED
        BY <4>1, <4>3
    <3>2. b \in [R!Pos -> BOOLEAN] /\ N \in Nat /\ m + c <= N
      BY <2>3 DEF Stretch
    <3>3. m < m + c /\ m + c \in Nat /\ m < N /\ m \in m .. m + c - 1
      BY <2>2, <3>2
    <3>4. b[m] = val /\ b[m - 1] # val
      BY <1>3, <2>3, <3>1, <3>3 DEF Stretch
    <3>5. PICK z \in Nat : z = m + c
      BY <3>3
    <3>6. m < z /\ b[m - 1] # b[m]
      BY <3>3, <3>4, <3>5
    <3>7. BitsFrom(XP, b, q, z) # {} /\ BitsFrom(XP, b, q, z) # 0 .. XP - 1
      BY <1>0, <3>1, <3>2, <3>3, <3>6, MixedLiteral
    <3> QED
      BY <2>6, <3>5, <3>7
  <2>8. s = [e   |-> [words |-> n, length |-> m + c, remaining |-> r - c],
             len |-> len - c]
    <3>1. Xah!Closed(ones) = R!Literal(ones)
      BY <2>7, XahHelpers DEF Xah!Closed, XP
    <3>2. ~w.fill /\ e.remaining > 0
      BY <1>1, <1>3, <2>1
    <3>3. /\ Xah!Last(e.words) = w /\ Xah!AtMost(e.remaining, len) = c
          /\ Xah!payload_bit_cnt - e.remaining = begin
      BY <2>0, <2>1, <2>2, XahHelpers DEF XP
    <3>4. s = [e |-> [words     |-> Xah!ReplaceLast(e.words, IF c = e.remaining THEN Xah!Closed(ones)
                                                              ELSE Xah!Literal(ones)),
                      length    |-> e.length + c,
                      remaining |-> e.remaining - c],
               len |-> len - c]
      BY <3>2, <3>3 DEF s, Xah!FillUpLiteral, ones, Grown
    <3>5. (IF c = e.remaining THEN Xah!Closed(ones) ELSE Xah!Literal(ones)) = R!Literal(ones)
      BY <3>1, XahHelpers
    <3>6. Xah!ReplaceLast(e.words, R!Literal(ones)) = n
      BY XahHelpers
    <3>7. e.length = m
      BY <1>1
    <3> HIDE DEF n
    <3> QED
      BY <2>1, <3>4, <3>5, <3>6, <3>7
  <2> HIDE DEF n
  <2>9. ~R!Last(n).fill
    BY <2>5 DEF R!Literal
  <2>10. r - c \in 0 .. XP - 1 /\ (m + c) + (r - c) = m + r /\ c \in 0 .. len
    BY <1>0, <2>1, <2>2
  <2>11. s.e = [words |-> n, length |-> m + c, remaining |-> r - c] /\ s.len = len - c
    BY <2>8
  <2>12. Kept(XP, XP, XM, b, s.e, m + c)
    BY <2>5, <2>9, <2>10, <2>11 DEF Kept
  <2>13. Staged(XP, XP, XM, b, s, m, len)
    BY <2>10, <2>11, <2>12 DEF Staged
  <2>14. s.len # 0 => s.e.remaining = 0
    <3>1. len - c # 0 => r - c = 0
      BY <1>0, <2>1, <2>2
    <3> QED
      BY <2>11, <3>1
  <2> QED
    BY <2>13, <2>14 DEF s
<1> QED
  BY <1>2, <1>3

\* append_run: the whole run is encoded.
LEMMA XahAppend ==
  ASSUME NEW b, NEW e, NEW m \in Nat, Kept(XP, XP, XM, b, e, m),
         NEW run, NEW len \in Nat, len > 0, run.len = len, Stretch(b, m, len, run.val),
         m = 0 \/ b[m - 1] # run.val
  PROVE  Kept(XP, XP, XM, b, Xah!append_run(e, run), m + len)
<1> DEFINE val == run.val
           s0 == IF e.words = <<>> THEN Xah!FirstWord(val, len) ELSE [e |-> e, len |-> len]
           s1 == IF s0.len = 0 THEN s0 ELSE Xah!ExtendFill(s0.e, val, s0.len)
           s2 == IF s1.len = 0 THEN s1 ELSE Xah!FillUpLiteral(s1.e, val, s1.len)
<1>1. Xah!append_run(e, run) = Xah!AppendRest(s2.e, val, s2.len)
  BY DEF Xah!append_run
<1>2. PICK v : v = val
  OBVIOUS
<1>3. Stretch(b, m, len, v) /\ (m = 0 \/ b[m - 1] # v)
  BY <1>2
<1>4. /\ Staged(XP, XP, XM, b, s0, m, len)
      /\ s0.len # 0 => s0.e.words # <<>>
      /\ s0.e.remaining # 0 /\ s0.len # 0 => s0.e = e /\ s0.len = len
  <2>1. CASE e.words = <<>>
    <3>1. m = 0
      BY <2>1, XahSizes, KeptNothing
    <3>2. s0 = Xah!FirstWord(v, len)
      BY <1>2, <2>1
    <3>3. Stretch(b, 0, len, v)
      BY <1>3, <3>1
    <3>4. LET s == Xah!FirstWord(v, len)
          IN  /\ Staged(XP, XP, XM, b, s, 0, len)
              /\ s.len # 0 => s.e.words # <<>> /\ R!Last(s.e.words).fill /\ s.e.remaining = 0
      BY <3>3, XahFirst
    <3> HIDE DEF s0
    <3> QED
      BY <3>1, <3>2, <3>4
  <2>2. CASE e.words # <<>>
    <3>1. s0 = [e |-> e, len |-> len]
      BY <2>2
    <3>2. 0 \in 0 .. len /\ len - 0 = len /\ m + 0 = m
      OBVIOUS
    <3> HIDE DEF s0
    <3>3. Staged(XP, XP, XM, b, s0, m, len)
      BY <3>1, <3>2 DEF Staged
    <3> QED
      BY <2>2, <3>1, <3>3
  <2> QED
    BY <2>1, <2>2
<1> HIDE DEF s0
<1>5. \A s \in {s0} : Staged(XP, XP, XM, b, s, m, len) =>
         \E d \in 0 .. len : s.len = len - d /\ Kept(XP, XP, XM, b, s.e, m + d)
  BY DEF Staged
<1>6. PICK d0 \in 0 .. len : s0.len = len - d0 /\ Kept(XP, XP, XM, b, s0.e, m + d0)
  BY <1>4 DEF Staged
<1>7. PICK l0 \in Nat : l0 = s0.len /\ l0 = len - d0
  BY <1>6
<1>8. PICK m0 \in Nat : m0 = m + d0 /\ m0 + l0 = m + len
  BY <1>7
<1>9. Stretch(b, m0, l0, v) /\ Kept(XP, XP, XM, b, s0.e, m0)
  BY <1>3, <1>6, <1>7, <1>8, StretchPart
<1>10. /\ Staged(XP, XP, XM, b, s1, m0, l0)
       /\ s1.len # 0 => s1.e.words # <<>>
       /\ s1.e.remaining # 0 /\ s1.len # 0 => s1.e = e /\ s1.len = len
  <2>1. CASE s0.len = 0
    <3>1. s1 = s0
      BY <2>1
    <3>2. 0 \in 0 .. l0 /\ l0 - 0 = l0 /\ m0 + 0 = m0
      OBVIOUS
    <3> HIDE DEF s1
    <3>3. Staged(XP, XP, XM, b, s1, m0, l0)
      BY <1>7, <1>9, <3>1, <3>2 DEF Staged
    <3> QED
      BY <2>1, <3>1, <3>3
  <2>2. CASE s0.len # 0
    <3>1. s1 = Xah!ExtendFill(s0.e, v, l0)
      BY <1>2, <1>7, <2>2
    <3>2. LET s == Xah!ExtendFill(s0.e, v, l0)
          IN  /\ Staged(XP, XP, XM, b, s, m0, l0)
              /\ s.e.words # <<>>
              /\ s.e.remaining # 0 => s.e = s0.e /\ s.len = l0
      BY <1>4, <1>9, <2>2, XahExtend
    <3> HIDE DEF s1
    <3> QED
      BY <1>4, <1>7, <2>2, <3>1, <3>2
  <2> QED
    BY <2>1, <2>2
<1> HIDE DEF s1
<1>11. PICK d1 \in 0 .. l0 : s1.len = l0 - d1 /\ Kept(XP, XP, XM, b, s1.e, m0 + d1)
  BY <1>10 DEF Staged
<1>12. PICK l1 \in Nat : l1 = s1.len /\ l1 = l0 - d1
  BY <1>11
<1>13. PICK m1 \in Nat : m1 = m0 + d1 /\ m1 + l1 = m + len
  BY <1>8, <1>12
<1>14. Stretch(b, m1, l1, v) /\ Kept(XP, XP, XM, b, s1.e, m1)
  BY <1>9, <1>11, <1>12, <1>13, StretchPart
<1>15. Staged(XP, XP, XM, b, s2, m1, l1) /\ (s2.len # 0 => s2.e.remaining = 0)
  <2>1. CASE s1.len = 0
    <3>1. s2 = s1
      BY <2>1
    <3>2. 0 \in 0 .. l1 /\ l1 - 0 = l1 /\ m1 + 0 = m1
      OBVIOUS
    <3> HIDE DEF s2
    <3>3. Staged(XP, XP, XM, b, s2, m1, l1)
      BY <1>12, <1>14, <3>1, <3>2 DEF Staged
    <3> QED
      BY <2>1, <3>1, <3>3
  <2>2. CASE s1.len # 0
    <3>1. s2 = Xah!FillUpLiteral(s1.e, v, l1)
      BY <1>2, <1>12, <2>2
    <3>2. l1 > 0
      BY <1>12, <2>2
    <3>3. s1.e.remaining # 0 => m1 = 0 \/ b[m1 - 1] # v
      <4> SUFFICES ASSUME s1.e.remaining # 0 PROVE m1 = 0 \/ b[m1 - 1] # v
        OBVIOUS
      <4>1. s1.len = len
        BY <1>10, <2>2
      <4>3. l1 = len
        BY <1>12, <4>1
      <4>2. m1 = m
        BY <1>13, <4>3
      <4> QED
        BY <1>3, <4>2
    <3>4. LET s == Xah!FillUpLiteral(s1.e, v, l1)
          IN  Staged(XP, XP, XM, b, s, m1, l1) /\ (s.len # 0 => s.e.remaining = 0)
      BY <1>10, <1>14, <2>2, <3>2, <3>3, XahFillUp
    <3> HIDE DEF s2
    <3> QED
      BY <3>1, <3>4
  <2> QED
    BY <2>1, <2>2
<1> HIDE DEF s2
<1>16. PICK d2 \in 0 .. l1 : s2.len = l1 - d2 /\ Kept(XP, XP, XM, b, s2.e, m1 + d2)
  BY <1>15 DEF Staged
<1>17. PICK l2 \in Nat : l2 = s2.len /\ l2 = l1 - d2
  BY <1>16
<1>18. PICK m2 \in Nat : m2 = m1 + d2 /\ m2 + l2 = m + len
  BY <1>13, <1>17
<1>19. Stretch(b, m2, l2, v) /\ Kept(XP, XP, XM, b, s2.e, m2)
  BY <1>14, <1>16, <1>17, <1>18, StretchPart
<1>20. Kept(XP, XP, XM, b, Xah!AppendRest(s2.e, v, l2), m2 + l2)
  BY <1>15, <1>17, <1>19, XahRest
<1> QED
  BY <1>1, <1>2, <1>17, <1>18, <1>20

-----------------------------------------------------------------------------
\* The instance of the common operators counts as this module does.
LEMMA SameCardinality == \A T : R!Cardinality(T) = Cardinality(T)
BY DEF R!Cardinality, Cardinality

\* The members of a set in their order
LEMMA OrderedIs ==
  ASSUME NEW S, S \subseteq Nat, IsFiniteSet(S)
  PROVE  /\ Cardinality(S) \in Nat
         /\ R!Ordered(S) \in [1 .. Cardinality(S) -> S]
         /\ \A k \in 1 .. Cardinality(S) : Rank(S, R!Ordered(S)[k]) = k - 1
<1> DEFINE n == Cardinality(S)
           o == R!Ordered(S)
<1>1. n \in Nat
  BY FS_CardinalityType
<1>2. \A i : R!Cardinality({j \in S : j < i}) = Rank(S, i)
  BY SameCardinality DEF Rank
<1>3. o = [k \in 1 .. n |-> CHOOSE i \in S : R!Cardinality({j \in S : j < i}) = k - 1]
  BY SameCardinality DEF R!Ordered
<1> HIDE DEF n, o
<1>4. ASSUME NEW k \in 1 .. n PROVE o[k] \in S /\ Rank(S, o[k]) = k - 1
  <2>1. k - 1 \in 0 .. n - 1
    BY <1>1
  <2>2. \E i \in S : Rank(S, i) = k - 1
    BY <2>1, RankOnto DEF n
  <2>3. o[k] = CHOOSE i \in S : R!Cardinality({j \in S : j < i}) = k - 1
    BY <1>3
  <2>4. \E i \in S : R!Cardinality({j \in S : j < i}) = k - 1
    BY <1>2, <2>2
  <2>5. o[k] \in S /\ R!Cardinality({j \in S : j < o[k]}) = k - 1
    BY <2>3, <2>4
  <2> QED
    BY <1>2, <2>5
<1>5. o \in [1 .. n -> S]
  BY <1>3, <1>4
<1> QED
  BY <1>1, <1>4, <1>5 DEF n, o

\* The runs of a bitmap and where they end: each is a stretch of equal bits,
\* and differs from the one before it.
RunsAt(b, runs, n, cut) ==
  /\ n \in Nat /\ n > 0 /\ DOMAIN runs = 1 .. n /\ Len(runs) = n
  /\ cut \in [0 .. n -> 0 .. N] /\ cut[0] = 0 /\ cut[n] = N
  /\ \A k \in 1 .. n :
       /\ runs[k].len \in Nat /\ runs[k].len > 0
       /\ cut[k] = cut[k - 1] + runs[k].len
       /\ Stretch(b, cut[k - 1], runs[k].len, runs[k].val)
       /\ cut[k - 1] = 0 \/ b[cut[k - 1] - 1] # runs[k].val
  /\ runs[1].val = b[0]

RunBegins(b) == {i \in R!Pos : i = 0 \/ b[i] # b[i - 1]}

\* The runs of a bitmap follow one another from its first bit to its last, and
\* each differs from the one before it.
LEMMA RunsOfBitmap ==
  ASSUME NEW b \in [R!Pos -> BOOLEAN]
  PROVE  \E n, cut : RunsAt(b, R!RunsOf(b), n, cut)
<1> DEFINE S == RunBegins(b)
           n == Cardinality(S)
           begins == R!Ordered(S)
           runs == R!RunsOf(b)
<1>0. N \in Nat /\ N > 0 /\ R!Pos = 0 .. N - 1
  BY WordCodecsAssumption DEF R!Pos
<1>1. S \subseteq 0 .. N - 1 /\ S \subseteq Nat /\ IsFiniteSet(S) /\ 0 \in S
  <2>1. S \subseteq 0 .. N - 1 /\ 0 \in S
    BY <1>0 DEF RunBegins
  <2>2. IsFiniteSet(0 .. N - 1)
    BY <1>0, FS_Interval
  <2> QED
    BY <1>0, <2>1, <2>2, FS_Subset
<1> HIDE DEF S
<1>2. n \in Nat /\ begins \in [1 .. n -> S] /\ \A k \in 1 .. n : Rank(S, begins[k]) = k - 1
  BY <1>1, OrderedIs
<1>3. n > 0
  <2>1. Rank(S, 0) \in Nat /\ Rank(S, 0) < Cardinality(S)
    BY <1>1, RankType, RankBelow
  <2> QED
    BY <1>2, <2>1
<1> HIDE DEF n, begins
<1>4. begins[1] = 0
  <2>1. Rank(S, 0) = 0
    <3>1. {u \in S : u < 0} = {}
      <4>1. \A u \in Nat : ~(u < 0)
        OBVIOUS
      <4> QED
        BY <1>1, <4>1
    <3> QED
      BY <3>1, FS_EmptySet DEF Rank
  <2>2. 1 \in 1 .. n
    BY <1>2, <1>3
  <2>3. begins[1] \in S /\ Rank(S, begins[1]) = 0
    BY <1>2, <2>2
  <2> QED
    BY <1>1, <2>1, <2>3, RankInjective
<1> DEFINE cut == [k \in 0 .. n |-> IF k = n THEN N ELSE begins[k + 1]]
<1>5. cut \in [0 .. n -> 0 .. N] /\ cut[0] = 0 /\ cut[n] = N
  <2>1. \A k \in 0 .. n : k # n => k + 1 \in 1 .. n /\ begins[k + 1] \in 0 .. N
    <3> TAKE k \in 0 .. n
    <3> HAVE k # n
    <3>1. k + 1 \in 1 .. n
      BY <1>2
    <3>2. begins[k + 1] \in 0 .. N - 1
      BY <1>1, <1>2, <3>1
    <3> QED
      BY <1>0, <3>1, <3>2
  <2>2. N \in 0 .. N /\ 0 \in 0 .. n /\ n \in 0 .. n /\ 0 # n /\ 0 + 1 = 1
    BY <1>0, <1>2, <1>3
  <2> QED
    BY <1>4, <2>1, <2>2
<1>6. \A k \in 1 .. n : cut[k - 1] = begins[k]
  <2> TAKE k \in 1 .. n
  <2>1. k - 1 \in 0 .. n /\ k - 1 # n /\ (k - 1) + 1 = k
    BY <1>2
  <2> QED
    BY <2>1
<1>7. /\ DOMAIN runs = 1 .. n /\ Len(runs) = n
      /\ \A k \in 1 .. n : runs[k] = [val |-> b[begins[k]], len |-> cut[k] - begins[k]]
  <2> DEFINE ends == Append(Tail(begins), N)
  <2>1. begins \in Seq(Nat) /\ Len(begins) = n /\ DOMAIN begins = 1 .. n /\ begins # <<>>
    <3>1. begins \in [1 .. n -> Nat]
      BY <1>1, <1>2
    <3>2. n \in Nat
      BY <1>2
    <3>3. begins \in Seq(Nat) /\ Len(begins) = n /\ DOMAIN begins = 1 .. n
      BY ONLY <3>1, <3>2
    <3> QED
      BY <1>3, <3>3, EmptySeq
  <2>2. /\ Tail(begins) \in Seq(Nat) /\ Len(Tail(begins)) = n - 1
        /\ \A k \in 1 .. n - 1 : Tail(begins)[k] = begins[k + 1]
    BY <2>1, HeadTailProperties
  <2>3. /\ Len(ends) = n /\ ends[n] = N
        /\ \A k \in 1 .. n - 1 : ends[k] = begins[k + 1]
    <3>1. /\ Len(ends) = Len(Tail(begins)) + 1 /\ ends[Len(Tail(begins)) + 1] = N
          /\ \A k \in 1 .. Len(Tail(begins)) : ends[k] = Tail(begins)[k]
      BY <1>0, <2>2, AppendProperties
    <3>2. Len(Tail(begins)) + 1 = n
      BY <1>2, <2>2
    <3> HIDE DEF ends
    <3> QED
      BY <2>2, <3>1, <3>2
  <2>4. runs = [k \in 1 .. n |-> [val |-> b[begins[k]], len |-> ends[k] - begins[k]]]
    BY <2>1 DEF R!RunsOf, S, RunBegins, begins
  <2> HIDE DEF ends, runs
  <2>5. \A k \in 1 .. n : ends[k] = cut[k]
    <3> TAKE k \in 1 .. n
    <3>1. k \in 0 .. n /\ (k = n \/ (k # n /\ k \in 1 .. n - 1))
      BY <1>2
    <3> QED
      BY <2>3, <3>1
  <2>6. DOMAIN runs = 1 .. n /\ Len(runs) = n
    BY <1>2, <2>4
  <2> HIDE DEF cut
  <2> QED
    BY <2>4, <2>5, <2>6
<1> HIDE DEF cut, runs
<1>8. ASSUME NEW k \in 1 .. n
      PROVE  /\ runs[k].len \in Nat /\ runs[k].len > 0
             /\ cut[k] = cut[k - 1] + runs[k].len
             /\ Stretch(b, cut[k - 1], runs[k].len, runs[k].val)
             /\ cut[k - 1] = 0 \/ b[cut[k - 1] - 1] # runs[k].val
  <2>1. PICK c \in S : c = begins[k] /\ c = cut[k - 1] /\ Rank(S, c) = k - 1
    BY <1>2, <1>6
  <2>2. k \in 0 .. n /\ k \in Nat
    BY <1>2
  <2>3. PICK d \in 0 .. N : d = cut[k]
    BY <1>5, <2>2
  <2>4. c \in 0 .. N - 1 /\ c \in Nat /\ d \in Nat
    BY <1>0, <1>1
  <2>5. \A i \in S : c < i => ~(i < d)
    <3> SUFFICES ASSUME NEW i \in S, c < i, i < d PROVE FALSE
      OBVIOUS
    <3>1. Rank(S, i) \in Nat /\ k - 1 < Rank(S, i) /\ i \in Nat
      BY <1>1, <2>1, <2>4, RankOrder, RankType
    <3>2. CASE k = n
      <4>1. Rank(S, i) < n
        BY <1>1, RankBelow DEF n
      <4> QED
        BY <1>2, <3>1, <3>2, <4>1
    <3>3. CASE k # n
      <4>1. k + 1 \in 1 .. n /\ (k + 1) - 1 = k
        BY <1>2, <3>3
      <4>2. d = begins[k + 1]
        BY <2>2, <2>3, <3>3 DEF cut
      <4>3. Rank(S, d) = k
        BY <1>2, <4>1, <4>2
      <4>4. Rank(S, i) < Rank(S, d)
        BY <1>1, <2>4, RankOrder
      <4> QED
        BY <2>2, <3>1, <4>3, <4>4
    <3> QED
      BY <3>2, <3>3
  <2>6. c < d
    <3>1. CASE k = n
      <4>1. d = N
        BY <1>5, <2>3, <3>1
      <4> QED
        BY <1>0, <2>4, <4>1
    <3>2. CASE k # n
      <4>1. k + 1 \in 1 .. n /\ (k + 1) - 1 = k
        BY <1>2, <3>2
      <4>2. d = begins[k + 1]
        BY <2>2, <2>3, <3>2 DEF cut
      <4>3. Rank(S, d) = k /\ d \in S
        BY <1>2, <4>1, <4>2
      <4>4. d < c => Rank(S, d) < Rank(S, c)
        BY <1>1, <2>4, <4>3, RankOrder
      <4>5. d # c
        BY <2>1, <2>2, <4>3
      <4> QED
        BY <2>1, <2>2, <2>4, <4>3, <4>4, <4>5
    <3> QED
      BY <3>1, <3>2
  <2>7. runs[k].val = b[c] /\ runs[k].len = d - c
    <3>1. runs[k] = [val |-> b[begins[k]], len |-> cut[k] - begins[k]]
      BY <1>7
    <3>2. begins[k] = c /\ cut[k] = d
      BY <2>1, <2>3
    <3> QED
      BY <3>1, <3>2
  <2>8. \A i \in c .. d - 1 : b[i] = b[c]
    <3> DEFINE Bad == {i \in c .. d - 1 : b[i] # b[c]}
    <3> SUFFICES ASSUME Bad # {} PROVE FALSE
      OBVIOUS
    <3>1. Bad \subseteq Nat
      BY <2>4
    <3>2. PICK i \in Bad : \A j \in Bad : i <= j
      BY <3>1, LeastNatural
    <3>3. i \in c .. d - 1 /\ b[i] # b[c] /\ i # c
      OBVIOUS
    <3>4. i - 1 \in c .. d - 1 /\ i \in 0 .. N - 1 /\ c < i /\ i < d /\ ~(i <= i - 1)
      BY <1>0, <2>4, <3>3
    <3>5. b[i - 1] = b[c]
      BY <3>2, <3>4
    <3>6. i \in S
      BY <1>0, <3>3, <3>4, <3>5 DEF S, RunBegins
    <3> QED
      BY <2>5, <3>4, <3>6
  <2>9. c = 0 \/ b[c - 1] # b[c]
    BY DEF S, RunBegins
  <2>10. /\ d - c \in Nat /\ d - c > 0 /\ d = c + (d - c) /\ c + (d - c) <= N
         /\ \A i \in c .. c + (d - c) - 1 : i \in c .. d - 1
    BY <2>3, <2>4, <2>6
  <2>11. b[c] \in BOOLEAN
    BY <1>0, <2>4
  <2>12. Stretch(b, c, d - c, b[c])
    BY <1>0, <2>4, <2>8, <2>10, <2>11 DEF Stretch
  <2> QED
    BY <2>1, <2>3, <2>7, <2>9, <2>10, <2>12
<1>9. runs[1].val = b[0]
  <2>1. 1 \in 1 .. n
    BY <1>2, <1>3
  <2> QED
    BY <1>4, <1>7, <2>1
<1>10. RunsAt(b, runs, n, cut)
  BY <1>2, <1>3, <1>5, <1>7, <1>8, <1>9 DEF RunsAt
<1> QED
  BY <1>10 DEF runs

\* xah takes the runs as all codecs do.
LEMMA XahRuns == \A b : Xah!RunsOf(b) = R!RunsOf(b)
BY DEF Xah!RunsOf, R!RunsOf, Xah!Ordered, R!Ordered, Xah!Pos, R!Pos, Xah!Cardinality, R!Cardinality

\* encode: all runs, one after the other
LEMMA XahEncodes ==
  ASSUME NEW b \in [R!Pos -> BOOLEAN]
  PROVE  Kept(XP, XP, XM, b, Xah!encode(b), N)
<1> DEFINE runs == R!RunsOf(b)
           X == [words : Seq(Codewords(XP, XM)), length : Nat, remaining : 0 .. XP - 1]
<1>0. N \in Nat /\ XP \in Nat /\ XP > 1 /\ Sizes(XP, XP, XM)
  BY XahSizes, WordCodecsAssumption
<1>1. PICK n, cut : RunsAt(b, runs, n, cut)
  BY RunsOfBitmap
<1> HIDE DEF runs
<1>2. /\ n \in Nat /\ Len(runs) = n /\ cut \in [0 .. n -> 0 .. N] /\ cut[0] = 0 /\ cut[n] = N
      /\ \A k \in 1 .. n :
           /\ runs[k].len \in Nat /\ runs[k].len > 0
           /\ cut[k] = cut[k - 1] + runs[k].len
           /\ Stretch(b, cut[k - 1], runs[k].len, runs[k].val)
           /\ cut[k - 1] = 0 \/ b[cut[k - 1] - 1] # runs[k].val
  BY <1>1 DEF RunsAt
<1> DEFINE K(m) == {e \in X : Kept(XP, XP, XM, b, e, m)}
           Body(f) == [k \in 0 .. n |-> IF k = 0 THEN Xah!Empty ELSE Xah!append_run(f[k - 1], runs[k])]
           g == CHOOSE f : f = Body(f)
           step == [k \in 0 .. n |->
                      [e \in X |-> IF k # 0 /\ e \in K(cut[k - 1]) THEN Xah!append_run(e, runs[k]) ELSE e]]
<1>3. Xah!encode(b) = g[n]
  BY <1>2, XahRuns DEF Xah!encode, runs
<1>4. \A e : \A m \in Nat : Kept(XP, XP, XM, b, e, m) => e \in X
  BY DEF Kept
<1>5. Xah!Empty \in K(cut[0])
  <2>1. Xah!Empty = [words |-> <<>>, length |-> 0, remaining |-> 0]
    BY DEF Xah!Empty
  <2>2. HoldUpTo(BitsOf(XP, XP, XM), <<>>, b, 0, 0)
    <3>1. ViewBy(BitsOf(XP, XP, XM), <<>>) = <<>>
      BY DEF ViewBy
    <3> QED
      BY <3>1, SpellsNothing DEF HoldUpTo
  <2>3. <<>> \in Seq(Codewords(XP, XM)) /\ 0 \in 0 .. XP - 1 /\ 0 + 0 = 0
    BY <1>0
  <2>4. Kept(XP, XP, XM, b, Xah!Empty, 0)
    BY <2>1, <2>2, <2>3 DEF Kept
  <2> QED
    BY <1>2, <1>4, <2>4
<1>6. ASSUME NEW k \in 1 .. n, NEW e \in K(cut[k - 1])
      PROVE  Xah!append_run(e, runs[k]) \in K(cut[k])
  <2>1. k - 1 \in 0 .. n /\ k \in 0 .. n
    BY <1>2
  <2>2. PICK m \in Nat : m = cut[k - 1]
    BY <1>2, <2>1
  <2>3. PICK run : run = runs[k]
    OBVIOUS
  <2>4. PICK len \in Nat : len = run.len /\ len > 0 /\ cut[k] = m + len
    BY <1>2, <2>2, <2>3
  <2>5. Stretch(b, m, len, run.val) /\ (m = 0 \/ b[m - 1] # run.val)
    BY <1>2, <2>2, <2>3, <2>4
  <2>6. Kept(XP, XP, XM, b, e, m)
    BY <2>2
  <2>7. Kept(XP, XP, XM, b, Xah!append_run(e, run), m + len)
    BY <2>4, <2>5, <2>6, XahAppend
  <2>8. PICK z \in Nat : z = m + len
    OBVIOUS
  <2>9. PICK a : a = Xah!append_run(e, runs[k])
    OBVIOUS
  <2>10. Kept(XP, XP, XM, b, a, z) /\ cut[k] = z
    BY <2>3, <2>4, <2>7, <2>8, <2>9
  <2> HIDE DEF X
  <2>11. a \in X
    BY <1>4, <2>10
  <2> QED
    BY <2>9, <2>10, <2>11
<1> HIDE DEF K
<1>7. \A m : K(m) \subseteq X
  BY DEF K
<1> HIDE DEF X
<1>8. step \in Steps(0, n, X)
  <2>1. ASSUME NEW k \in 0 .. n, NEW e \in X
        PROVE  (IF k # 0 /\ e \in K(cut[k - 1]) THEN Xah!append_run(e, runs[k]) ELSE e) \in X
    <3>1. CASE k # 0 /\ e \in K(cut[k - 1])
      <4>1. k \in 1 .. n
        BY <1>2, <3>1
      <4>2. Xah!append_run(e, runs[k]) \in K(cut[k])
        BY <1>6, <3>1, <4>1
      <4> QED
        BY <1>7, <3>1, <4>2
    <3>2. CASE ~(k # 0 /\ e \in K(cut[k - 1]))
      BY <3>2
    <3> QED
      BY <3>1, <3>2
  <2> QED
    BY <2>1 DEF Steps
<1>9. PICK f \in [0 .. n -> X] : FollowsUp(f, 0, n, Xah!Empty, step)
  <2>1. 0 \in Nat /\ n \in Nat /\ 0 <= n /\ Xah!Empty \in X
    BY <1>2, <1>5, <1>7
  <2> HIDE DEF step
  <2> QED
    BY <1>8, <2>1, FunctionUp
<1>10. \A k \in 0 .. n : f[k] = IF k = 0 THEN Xah!Empty ELSE step[k][f[k - 1]]
  BY <1>9 DEF FollowsUp
<1>11. \A k \in 1 .. n : f[k - 1] \in K(cut[k - 1]) =>
         f[k] = Xah!append_run(f[k - 1], runs[k])
  <2> TAKE k \in 1 .. n
  <2> HAVE f[k - 1] \in K(cut[k - 1])
  <2>1. k \in 0 .. n /\ k # 0 /\ k - 1 \in 0 .. n
    BY <1>2
  <2>2. f[k - 1] \in X
    BY <1>9, <2>1
  <2>3. step[k][f[k - 1]] = Xah!append_run(f[k - 1], runs[k])
    BY <2>1, <2>2
  <2> QED
    BY <1>10, <2>1, <2>3
<1> HIDE DEF step
<1> DEFINE T == {k \in 0 .. n : f[k] \in K(cut[k])}
<1>12. 0 .. n \subseteq T
  <2>1. 0 \in T
    BY <1>2, <1>5, <1>10
  <2>2. \A k \in 0 .. n - 1 : k \in T => k + 1 \in T
    <3> TAKE k \in 0 .. n - 1
    <3> HAVE k \in T
    <3>1. k + 1 \in 1 .. n /\ k + 1 \in 0 .. n /\ (k + 1) - 1 = k
      BY <1>2
    <3>2. f[k] \in K(cut[k])
      OBVIOUS
    <3>3. f[k + 1] = Xah!append_run(f[k], runs[k + 1])
      BY <1>11, <3>1, <3>2
    <3>4. Xah!append_run(f[k], runs[k + 1]) \in K(cut[k + 1])
      BY <1>6, <3>1, <3>2
    <3> QED
      BY <3>1, <3>3, <3>4
  <2>3. 0 \in Nat /\ n \in Nat
    BY <1>2
  <2> HIDE DEF T
  <2> QED
    BY <2>1, <2>2, <2>3, ReachedUp
<1>13. \A k \in 0 .. n : f[k] \in K(cut[k])
  BY <1>12
<1>14. f = Body(f)
  <2>1. \A k \in 0 .. n : f[k] = Body(f)[k]
    <3> TAKE k \in 0 .. n
    <3>1. CASE k = 0
      BY <1>10, <3>1
    <3>2. CASE k # 0
      <4>1. k \in 1 .. n /\ k - 1 \in 0 .. n
        BY <1>2, <3>2
      <4>2. f[k] = Xah!append_run(f[k - 1], runs[k])
        BY <1>11, <1>13, <4>1
      <4> QED
        BY <3>2, <4>2
    <3> QED
      BY <3>1, <3>2
  <2> QED
    BY <1>9, <2>1
<1>15. g = Body(g)
  BY <1>14
<1> HIDE DEF g
<1>16. g[0] = Xah!Empty /\ \A k \in 1 .. n : g[k] = Xah!append_run(g[k - 1], runs[k])
  <2> DEFINE h == Body(g)
  <2>1. h[0] = Xah!Empty /\ \A k \in 1 .. n : h[k] = Xah!append_run(g[k - 1], runs[k])
    BY <1>2
  <2>2. g = h
    BY <1>15
  <2> HIDE DEF h
  <2> QED
    BY <2>1, <2>2
<1> DEFINE V == {k \in 0 .. n : g[k] \in K(cut[k])}
<1>17. 0 .. n \subseteq V
  <2>1. 0 \in V
    BY <1>2, <1>5, <1>16
  <2>2. \A k \in 0 .. n - 1 : k \in V => k + 1 \in V
    <3> TAKE k \in 0 .. n - 1
    <3> HAVE k \in V
    <3>1. k + 1 \in 1 .. n /\ k + 1 \in 0 .. n /\ (k + 1) - 1 = k
      BY <1>2
    <3>2. g[k] \in K(cut[k])
      OBVIOUS
    <3>3. g[k + 1] = Xah!append_run(g[k], runs[k + 1])
      BY <1>16, <3>1
    <3>4. Xah!append_run(g[k], runs[k + 1]) \in K(cut[k + 1])
      BY <1>6, <3>1, <3>2
    <3> QED
      BY <3>1, <3>3, <3>4
  <2>3. 0 \in Nat /\ n \in Nat
    BY <1>2
  <2> HIDE DEF V
  <2> QED
    BY <2>1, <2>2, <2>3, ReachedUp
<1>18. g[n] \in K(cut[n])
  <2>1. n \in 0 .. n
    BY <1>2
  <2> QED
    BY <1>17, <2>1
<1> QED
  BY <1>2, <1>3, <1>18 DEF K

\* What has been encoded to the end is what the readers read.
LEMMA KeptReads ==
  ASSUME NEW u, NEW P, NEW max, NEW b, NEW e, Kept(u, P, max, b, e, N), P \in Nat
  PROVE  \E at : Reads(ViewBy(BitsOf(u, P, max), e.words), at, OnesOf(b))
<1> DEFINE v == ViewBy(BitsOf(u, P, max), e.words)
           S == OnesOf(b)
<1>0. N \in Nat
  BY WordCodecsAssumption
<1>1. S \subseteq 0 .. N - 1
  BY DEF OnesOf, R!Pos
<1>2. Prefix(b, N) = S
  <2>1. \A i \in S : i < N
    BY <1>0, <1>1
  <2> QED
    BY <2>1 DEF Prefix
<1>3. e.remaining \in Nat
  BY DEF Kept
<1>4. Spells(v, S, N + e.remaining)
  BY <1>2 DEF Kept, HoldUpTo
<1> HIDE DEF v, S
<1>5. PICK at : Placed(v, at, S) /\ at[Len(v) + 1] = N + e.remaining
  BY <1>4 DEF Spells
<1>6. \A i \in S : i < at[Len(v) + 1]
  <2>1. \A i \in 0 .. N - 1 : i < N + e.remaining
    BY <1>0, <1>3
  <2> QED
    BY <1>1, <1>5, <2>1
<1>7. Reads(v, at, S)
  BY <1>1, <1>5, <1>6 DEF Reads
<1> QED
  BY <1>7 DEF v, S

\* xah keeps all bits, in words that are what they should be.
LEMMA XahSound ==
  ASSUME NEW b \in [R!Pos -> BOOLEAN], NEW c \in {"xah", "xah_skip"}
  PROVE  Sound(c, b)
<1> DEFINE e == Xah!encode(b)
<1>0. XP \in Nat /\ XM \in Nat /\ Sizes(XP, XP, XM)
  BY XahSizes
<1>1. Kept(XP, XP, XM, b, e, N)
  BY XahEncodes
<1>2. Encode(c, b) = e /\ c # "concise" /\ c # "bah" /\ c \notin {"uah", "uah_skip"}
  BY DEF Encode
<1> HIDE DEF e
<1>3. e.words \in Seq(Codewords(XP, XM)) /\ e.length = N
  BY <1>1 DEF Kept
<1>4. \A w \in Codewords(XP, XM) : Xah!WordOK(w)
  <2> TAKE w \in Codewords(XP, XM)
  <2>1. /\ w.fill \in BOOLEAN
        /\ w.fill => w.cnt \in 1 .. XM
        /\ ~w.fill => w.ones \subseteq 0 .. XP - 1
    BY KindOfWord
  <2> QED
    BY <2>1 DEF Xah!WordOK, XP, XM
<1>5. \A k \in DOMAIN e.words : e.words[k] \in Codewords(XP, XM)
  BY <1>3
<1>6. WordsOK(c, e)
  BY <1>2, <1>4, <1>5 DEF WordsOK
<1>7. View(c, e) = ViewBy(BitsOf(XP, XP, XM), e.words)
  <2>1. \A w \in Codewords(XP, XM) :
          BitsOf(XP, XP, XM)[w] =
            [size |-> Xah!Size(w),
             ones |-> IF ~w.fill THEN w.ones
                      ELSE IF w.val THEN 0 .. Xah!Size(w) - 1 ELSE {}]
    <3> TAKE w \in Codewords(XP, XM)
    <3>1. Xah!Size(w) = IF w.fill THEN w.cnt * XP ELSE XP
      BY DEF Xah!Size, XP
    <3> QED
      BY <3>1 DEF BitsOf
  <2>2. View(c, e) = Xah!View(e.words)
    BY DEF View
  <2> QED
    BY <1>5, <2>1, <2>2 DEF Xah!View, ViewBy
<1>8. \E at : Reads(View(c, e), at, OnesOf(b))
  BY <1>0, <1>1, <1>7, KeptReads
<1> QED
  BY <1>2, <1>3, <1>6, <1>8 DEF Sound

-----------------------------------------------------------------------------
UP == Uah!payload_bit_cnt
UM == Uah!max_fill_length

\* The sizes of a UAH word are sizes the proofs can count with.
LEMMA UahSizes == UP \in Nat /\ UP > 1 /\ UM \in Nat /\ UM > 0 /\ Sizes(1, UP, UM)
<1>1. UahBits \in Nat /\ UahBits > 2
  BY WordCodecsAssumption
<1>2. UP \in Nat /\ UP > 1
  BY <1>1 DEF UP, Uah!payload_bit_cnt
<1>3. PICK k \in Nat : UahBits - 2 = k + 1
  <2>1. UahBits - 3 \in Nat /\ UahBits - 2 = (UahBits - 3) + 1
    BY <1>1
  <2> QED
    BY <2>1
<1>4. 2^(k + 1) = 2 * 2^k /\ 2^k \in Nat /\ 2^k > 0
  BY PowerOfTwo, PowerStep
<1>5. PICK p \in Nat : p = 2^k /\ p > 0
  BY <1>4
<1>6. UM = 2 * p - 1
  BY <1>3, <1>4, <1>5 DEF UM, Uah!max_fill_length
<1>7. UM \in Nat /\ UM > 0
  BY <1>5, <1>6
<1> QED
  BY <1>2, <1>7 DEF Sizes

\* The helpers of uah are those that all codecs share.
LEMMA UahHelpers ==
  /\ \A words, w : Uah!ReplaceLast(words, w) = R!ReplaceLast(words, w)
  /\ \A words : Uah!Last(words) = R!Last(words)
  /\ \A val, c : Uah!Fill(val, c) = R!Fill(val, c)
  /\ \A ones : Uah!Literal(ones) = R!Literal(ones)
  /\ \A x, y : Uah!AtMost(x, y) = R!AtMost(x, y)
<1>1. \A words, w : Uah!ReplaceLast(words, w) = R!ReplaceLast(words, w)
  BY DEF Uah!ReplaceLast, R!ReplaceLast, Uah!Front, R!Front
<1>2. \A words : Uah!Last(words) = R!Last(words)
  BY DEF Uah!Last, R!Last
<1>3. \A val, c : Uah!Fill(val, c) = R!Fill(val, c)
  BY DEF Uah!Fill, R!Fill
<1>4. \A ones : Uah!Literal(ones) = R!Literal(ones)
  BY DEF Uah!Literal, R!Literal
<1>5. \A x, y : Uah!AtMost(x, y) = R!AtMost(x, y)
  BY DEF Uah!AtMost, R!AtMost
<1> QED
  BY <1>1, <1>2, <1>3, <1>4, <1>5

\* The lesser of two counts
LEMMA AtMostOf ==
  ASSUME NEW x \in Nat, NEW y \in Nat
  PROVE  /\ R!AtMost(x, y) \in Nat /\ R!AtMost(x, y) <= x /\ R!AtMost(x, y) <= y
         /\ R!AtMost(x, y) = x \/ R!AtMost(x, y) = y
BY DEF R!AtMost

\* AppendRest: fills up to the end of the run
LEMMA UahRest ==
  ASSUME NEW b, NEW e, NEW m \in Nat, Kept(1, UP, UM, b, e, m), NEW val,
         NEW len \in Nat, len > 0, Stretch(b, m, len, val), e.remaining = 0
  PROVE  Kept(1, UP, UM, b, Uah!AppendRest(e, val, len), m + len)
<1> DEFINE fills == Fills(UM, val, len)
           n == e.words \o fills
           a == Uah!AppendRest(e, val, len)
<1>0. UP \in Nat /\ UP > 1 /\ Sizes(1, UP, UM)
  BY UahSizes
<1>1. /\ e.words \in Seq(Codewords(UP, UM)) /\ e.length = m
      /\ HoldUpTo(BitsOf(1, UP, UM), e.words, b, m, m + e.remaining)
  BY DEF Kept
<1>2. m + e.remaining = m /\ len * 1 = len
  OBVIOUS
<1>3. HoldUpTo(BitsOf(1, UP, UM), e.words, b, m, m) /\ Stretch(b, m, len * 1, val)
  BY <1>1, <1>2
<1>4. n \in Seq(Codewords(UP, UM)) /\ HoldUpTo(BitsOf(1, UP, UM), n, b, m + len * 1, m + len * 1)
  BY <1>0, <1>1, <1>3, AddFills
<1>5. a = [words |-> n, length |-> m + len, remaining |-> 0]
  <2>1. a = [words |-> e.words \o fills, length |-> e.length + len, remaining |-> 0]
    BY UahHelpers DEF Uah!AppendRest, Fills, UM
  <2> QED
    BY <1>1, <2>1
<1> HIDE DEF n, a
<1>6. 0 \in 0 .. UP - 1 /\ m + len * 1 = m + len /\ (m + len) + 0 = m + len
  BY <1>0, <1>2
<1>7. Kept(1, UP, UM, b, a, m + len)
  BY <1>4, <1>5, <1>6 DEF Kept
<1> QED
  BY <1>7 DEF a

\* ExtendFill: the last fill takes what it can count.
LEMMA UahExtend ==
  ASSUME NEW b, NEW e, NEW m \in Nat, Kept(1, UP, UM, b, e, m), e.words # <<>>,
         NEW val, NEW len \in Nat, Stretch(b, m, len, val),
         R!Last(e.words).fill, R!Last(e.words).val = val
  PROVE  LET s == Uah!ExtendFill(e, val, len)
         IN  Staged(1, UP, UM, b, s, m, len) /\ s.e.remaining = 0
<1> DEFINE s == Uah!ExtendFill(e, val, len)
           w == R!Last(e.words)
           f == BitsOf(1, UP, UM)
           W == Codewords(UP, UM)
<1>0. UP \in Nat /\ UP > 1 /\ UM \in Nat /\ UM > 0 /\ Sizes(1, UP, UM)
  BY UahSizes
<1>1. /\ e \in [words : Seq(W), length : {m}, remaining : 0 .. UP - 1]
      /\ HoldUpTo(f, e.words, b, m, m + e.remaining)
      /\ e.remaining # 0 => e.words # <<>> /\ ~w.fill
  BY DEF Kept
<1>2. e.remaining = 0 /\ m + e.remaining = m /\ HoldUpTo(f, e.words, b, m, m)
  <2>1. e.remaining = 0
    BY <1>1
  <2>2. m + e.remaining = m
    BY <2>1
  <2> QED
    BY <1>1, <2>1, <2>2
<1>3. w.cnt \in 1 .. UM
  <2>1. w \in W
    BY <1>0, <1>1, BitsOfWords, ViewFront
  <2> QED
    BY <2>1, KindOfWord
<1>4. PICK x \in 1 .. UM : x = w.cnt
  BY <1>3
<1>5. PICK room \in Nat : room = UM - x
  <2>1. UM - x \in Nat
    BY <1>0
  <2> QED
    BY <2>1
<1>6. PICK c \in 0 .. len : c = R!AtMost(room, len) /\ c \in Nat /\ x + c <= UM
  <2>2. PICK y \in Nat : y = R!AtMost(room, len) /\ y <= room /\ y <= len
    BY AtMostOf
  <2>3. y \in 0 .. len /\ x + y <= UM
    BY <1>0, <1>5, <2>2
  <2>1. R!AtMost(room, len) \in 0 .. len /\ R!AtMost(room, len) \in Nat /\ x + R!AtMost(room, len) <= UM
    BY <2>2, <2>3
  <2> QED
    BY <2>1
<1>7. c * 1 = c
  BY <1>6
<1>8. Stretch(b, m, c * 1, w.val)
  BY <1>7, StretchPart
<1>9. m \in 0 .. N
  BY DEF Stretch
<1> DEFINE n == R!ReplaceLast(e.words, R!Fill(w.val, w.cnt + c))
<1>10. /\ n \in Seq(W) /\ n # <<>> /\ R!Last(n) = R!Fill(w.val, w.cnt + c)
       /\ HoldUpTo(f, n, b, m + c * 1, m + c * 1)
  <2>1. w.cnt + c <= UM
    BY <1>4, <1>6
  <2> QED
    BY <1>0, <1>1, <1>2, <1>6, <1>8, <1>9, <2>1, GrowFill
<1>11. s = [e |-> [e EXCEPT !.words = n, !.length = m + c], len |-> len - c]
  <2>1. s = [e |-> [e EXCEPT !.words = R!ReplaceLast(@, R!Fill(val, w.cnt + c)),
                             !.length = @ + c], len |-> len - c]
    BY <1>4, <1>5, <1>6, UahHelpers DEF Uah!ExtendFill, UM
  <2>2. e.length = m
    BY <1>1
  <2> HIDE DEF s
  <2> QED
    BY <1>1, <2>1, <2>2
<1> HIDE DEF n, s
<1>12. s.e = [words |-> n, length |-> m + c, remaining |-> 0] /\ s.len = len - c
  BY <1>1, <1>2, <1>11
<1>13. 0 \in 0 .. UP - 1 /\ (m + c) + 0 = m + c
  BY <1>0, <1>6
<1>14. Kept(1, UP, UM, b, s.e, m + c)
  BY <1>7, <1>10, <1>12, <1>13 DEF Kept
<1>15. Staged(1, UP, UM, b, s, m, len)
  BY <1>12, <1>14 DEF Staged
<1> QED
  BY <1>12, <1>15 DEF s

\* FillUpLiteral: the last literal takes as many bits as it has room for.
LEMMA UahFillUp ==
  ASSUME NEW b, NEW e, NEW m \in Nat, Kept(1, UP, UM, b, e, m), e.remaining # 0,
         NEW val, NEW len \in Nat, Stretch(b, m, len, val)
  PROVE  LET s == Uah!FillUpLiteral(e, val, len)
         IN  Staged(1, UP, UM, b, s, m, len) /\ (s.len # 0 => s.e.remaining = 0)
<1> DEFINE s == Uah!FillUpLiteral(e, val, len)
           w == R!Last(e.words)
           f == BitsOf(1, UP, UM)
           W == Codewords(UP, UM)
<1>0. UP \in Nat /\ UP > 1 /\ Sizes(1, UP, UM)
  BY UahSizes
<1>1. /\ e \in [words : Seq(W), length : {m}, remaining : 0 .. UP - 1]
      /\ HoldUpTo(f, e.words, b, m, m + e.remaining)
      /\ e.words # <<>> /\ ~w.fill
  BY DEF Kept
<1>2. PICK r \in 1 .. UP - 1 : r = e.remaining
  BY <1>0, <1>1
<1>3. PICK c \in Nat : c = R!AtMost(r, len) /\ c <= r /\ c <= len /\ (c = r \/ c = len)
  <2>1. r \in Nat
    BY <1>0
  <2> QED
    BY <2>1, AtMostOf
<1>4. PICK begin \in Nat : begin = UP - r
  <2>1. UP - r \in Nat
    BY <1>0
  <2> QED
    BY <2>1
<1> DEFINE ones == Grown(w.ones, val, begin, c)
           n    == R!ReplaceLast(e.words, R!Literal(ones))
<1>5. Stretch(b, m, c, val)
  <2>1. c \in 0 .. len
    BY <1>3
  <2> QED
    BY <2>1, StretchPart
<1>6. /\ n \in Seq(W) /\ n # <<>> /\ R!Last(n) = R!Literal(ones)
      /\ HoldUpTo(f, n, b, m + c, m + r)
  <2>1. r \in 0 .. UP /\ c \in 0 .. r /\ HoldUpTo(f, e.words, b, m, m + r)
    BY <1>0, <1>1, <1>2, <1>3
  <2>2. LiteralTakes(1, UP, UM, e.words, b, m, r, c, ones)
    BY <1>0, <1>1, <1>4, <1>5, <2>1, GrowLiteral
  <2> QED
    BY <2>2 DEF LiteralTakes
<1>7. s = [e |-> [words |-> n, length |-> m + c, remaining |-> r - c], len |-> len - c]
  <2>1. Uah!AtMost(e.remaining, len) = c /\ Uah!payload_bit_cnt - e.remaining = begin
    BY <1>2, <1>3, <1>4, UahHelpers DEF UP
  <2>2. s = [e |-> [words     |-> R!ReplaceLast(e.words, R!Literal(ones)),
                    length    |-> e.length + c,
                    remaining |-> e.remaining - c], len |-> len - c]
    BY <2>1, UahHelpers DEF Uah!FillUpLiteral, Grown
  <2>3. e.length = m
    BY <1>1
  <2> HIDE DEF n, s
  <2> QED
    BY <1>2, <2>2, <2>3 DEF n
<1> HIDE DEF n, s, ones
<1>8. ~R!Last(n).fill
  BY <1>6 DEF R!Literal
<1>9. r - c \in 0 .. UP - 1 /\ (m + c) + (r - c) = m + r /\ c \in 0 .. len
  BY <1>0, <1>3
<1>10. s.e = [words |-> n, length |-> m + c, remaining |-> r - c] /\ s.len = len - c
  BY <1>7
<1>11. Kept(1, UP, UM, b, s.e, m + c)
  BY <1>6, <1>8, <1>9, <1>10 DEF Kept
<1>12. Staged(1, UP, UM, b, s, m, len)
  BY <1>9, <1>10, <1>11 DEF Staged
<1>13. s.len # 0 => s.e.remaining = 0
  <2>1. len - c # 0 => r - c = 0
    BY <1>3
  <2> QED
    BY <1>10, <2>1
<1> QED
  BY <1>12, <1>13 DEF s

\* Fill2Literal: a short fill and the bits behind it share a literal.
LEMMA UahFill2Literal ==
  ASSUME NEW b, NEW e, NEW m \in Nat, Kept(1, UP, UM, b, e, m), e.words # <<>>,
         NEW val, NEW len \in Nat, len > 0, Stretch(b, m, len, val),
         R!Last(e.words).fill, R!Last(e.words).val # val, R!Last(e.words).cnt < UP
  PROVE  LET s == Uah!Fill2Literal(e, val, len)
         IN  Staged(1, UP, UM, b, s, m, len) /\ (s.len # 0 => s.e.remaining = 0)
<1> DEFINE s == Uah!Fill2Literal(e, val, len)
           w == R!Last(e.words)
           f == BitsOf(1, UP, UM)
           W == Codewords(UP, UM)
<1>0. UP \in Nat /\ UP > 1 /\ UM \in Nat /\ UM > 0 /\ Sizes(1, UP, UM) /\ val \in BOOLEAN
  BY UahSizes DEF Stretch
<1>1. /\ e \in [words : Seq(W), length : {m}, remaining : 0 .. UP - 1]
      /\ HoldUpTo(f, e.words, b, m, m + e.remaining)
      /\ e.remaining # 0 => e.words # <<>> /\ ~w.fill
  BY DEF Kept
<1>2. HoldUpTo(f, e.words, b, m, m)
  <2>1. e.remaining = 0
    BY <1>1
  <2>2. m + e.remaining = m
    BY <2>1
  <2> QED
    BY <1>1, <2>2
<1>3. /\ R!Front(e.words) \in Seq(W) /\ w \in W
      /\ \E q \in Nat : /\ m = q + w.cnt * 1
                        /\ HoldUpTo(f, R!Front(e.words), b, q, q)
                        /\ Stretch(b, q, w.cnt * 1, w.val)
  <2>1. b \in [R!Pos -> BOOLEAN] /\ m \in 0 .. N
    BY DEF Stretch
  <2> QED
    BY <1>0, <1>1, <1>2, <2>1, FillIsStretch
<1>4. w.val \in BOOLEAN /\ w.cnt \in 1 .. UM
  BY <1>3, KindOfWord
<1>5. PICK x \in Nat : x = w.cnt /\ x > 0 /\ x < UP /\ x * 1 = x
  <2>1. w.cnt \in Nat /\ w.cnt > 0
    BY <1>0, <1>4
  <2>2. \A y \in Nat : y * 1 = y
    OBVIOUS
  <2> QED
    BY <2>1, <2>2
<1>6. PICK q \in Nat : /\ m = q + x
                       /\ HoldUpTo(f, R!Front(e.words), b, q, q)
                       /\ Stretch(b, q, x, w.val)
  BY <1>3, <1>5
<1>7. PICK room \in Nat : room = UP - x
  <2>1. UP - x \in Nat
    BY <1>0, <1>5
  <2> QED
    BY <2>1
<1>8. PICK c \in Nat : c = R!AtMost(room, len) /\ c <= room /\ c <= len /\ (c = room \/ c = len)
  BY AtMostOf
<1>9. Stretch(b, m, c, val)
  <2>1. c \in 0 .. len
    BY <1>8
  <2> QED
    BY <2>1, StretchPart
<1> DEFINE ones == IF val THEN x .. x + c - 1 ELSE 0 .. x - 1
           l    == R!Literal(ones)
           n    == R!ReplaceLast(e.words, l)
<1>10. PICK k \in Nat : k = m + c /\ q <= k /\ k <= q + UP
  <2>1. m + c \in Nat /\ q <= m + c /\ m + c <= q + UP
    <3>1. PICK p \in Nat : p = UP
      BY <1>0
    <3>2. m = q + x /\ x + room = p /\ c <= room
      BY <1>5, <1>6, <1>7, <1>8, <3>1
    <3>3. m + c \in Nat /\ q <= m + c /\ m + c <= q + p
      BY <3>2
    <3> QED
      BY <3>1, <3>3
  <2> QED
    BY <2>1
<1>11. ones = BitsFrom(UP, b, q, k)
  <2>1. BitsFrom(UP, b, q, m) = IF w.val THEN 0 .. x - 1 ELSE {}
    <3>1. x \in 0 .. UP
      BY <1>0, <1>5
    <3>2. BitsFrom(UP, b, q, q + x) = IF w.val THEN 0 .. x - 1 ELSE {}
      BY <1>0, <1>6, <3>1, FrontOfLiteral
    <3> QED
      BY <1>6, <3>2
  <2>2. BitsFrom(UP, b, q, k) = Grown(BitsFrom(UP, b, q, m), val, x, c)
    <3>1. /\ UP \in Nat /\ m \in Nat /\ c \in Nat /\ q \in Nat /\ k \in Nat /\ x \in Nat
          /\ Stretch(b, m, c, val) /\ q <= m /\ m + c <= q + UP /\ k = m + c /\ x = m - q
      <4>1. m = q + x
        BY <1>6
      <4>2. q <= m /\ x = m - q
        BY <4>1
      <4>3. m + c <= q + UP
        BY <1>10
      <4> QED
        BY <1>0, <1>9, <1>10, <4>2, <4>3
    <3> QED
      BY ONLY <3>1, LiteralGrows
  <2>3. w.val <=> ~val
    <3>1. \A y \in BOOLEAN, z \in BOOLEAN : y # z => (y <=> ~z)
      OBVIOUS
    <3>2. w.val # val
      OBVIOUS
    <3> HIDE DEF w
    <3> QED
      BY <1>0, <1>4, <3>1, <3>2, Zenon
  <2> HIDE DEF w
  <2> QED
    BY <2>1, <2>2, <2>3 DEF Grown
<1>12. /\ Append(R!Front(e.words), l) \in Seq(W)
       /\ HoldUpTo(f, Append(R!Front(e.words), l), b, k, q + UP)
  <2> HIDE DEF ones
  <2> QED
    BY <1>0, <1>3, <1>6, <1>10, <1>11, AddLiteral
<1>13. s = [e |-> [words |-> n, length |-> k, remaining |-> room - c], len |-> len - c]
  <2>1. Uah!payload_bit_cnt - w.cnt = room /\ Uah!AtMost(room, len) = c
    BY <1>5, <1>7, <1>8, UahHelpers DEF UP
  <2>2. s = [e |-> [words     |-> R!ReplaceLast(e.words, R!Literal(ones)),
                    length    |-> e.length + c,
                    remaining |-> room - c], len |-> len - c]
    BY <1>5, <2>1, UahHelpers DEF Uah!Fill2Literal
  <2>3. e.length = m
    BY <1>1
  <2> HIDE DEF n, s
  <2> QED
    BY <1>10, <2>2, <2>3 DEF n
<1>14. n = Append(R!Front(e.words), l)
  BY DEF R!ReplaceLast
<1>15. l \in W /\ ~l.fill
  <2>1. ones \in SUBSET (0 .. UP - 1)
    <3> HIDE DEF ones
    <3> QED
      BY <1>11 DEF BitsFrom
  <2> HIDE DEF ones
  <2> QED
    BY <1>0, <2>1, BitsOfWords DEF R!Literal
<1> HIDE DEF n, s, l
<1>16. n # <<>> /\ R!Last(n) = l
  <2>1. /\ n # <<>> /\ Len(n) = Len(R!Front(e.words)) + 1
        /\ n[Len(R!Front(e.words)) + 1] = l
    BY <1>3, <1>14, <1>15, AppendProperties
  <2> QED
    BY <2>1 DEF R!Last
<1>17. room - c \in 0 .. UP - 1 /\ k + (room - c) = q + UP /\ c \in 0 .. len
  <2>1. PICK p \in Nat : p = UP
    BY <1>0
  <2>2. m = q + x /\ x + room = p /\ c <= room /\ x > 0 /\ c <= len /\ k = m + c
    <3>1. m = q + x /\ k = m + c
      BY <1>6, <1>10
    <3>2. x + room = p /\ x > 0
      BY <1>5, <1>7, <2>1
    <3>3. c <= room /\ c <= len
      BY <1>8
    <3> QED
      BY <3>1, <3>2, <3>3
  <2>3. room - c \in 0 .. p - 1 /\ k + (room - c) = q + p /\ c \in 0 .. len
    BY <2>2
  <2> QED
    BY <2>1, <2>3
<1>18. s.e = [words |-> n, length |-> k, remaining |-> room - c] /\ s.len = len - c
  BY <1>13
<1>19. Kept(1, UP, UM, b, s.e, k)
  BY <1>12, <1>14, <1>15, <1>16, <1>17, <1>18 DEF Kept
<1>20. Staged(1, UP, UM, b, s, m, len)
  BY <1>10, <1>17, <1>18, <1>19 DEF Staged
<1>21. s.len # 0 => s.e.remaining = 0
  <2>1. len - c # 0 => room - c = 0
    BY <1>8
  <2> QED
    BY <1>18, <2>1
<1> QED
  BY <1>20, <1>21 DEF s

\* The end of append_run: what is left makes fills.
LEMMA UahEnd ==
  ASSUME NEW b, NEW s, NEW m \in Nat, NEW len \in Nat, NEW val, Stretch(b, m, len, val),
         Staged(1, UP, UM, b, s, m, len), s.len # 0 => s.e.remaining = 0
  PROVE  Kept(1, UP, UM, b, IF s.len = 0 THEN s.e ELSE Uah!AppendRest(s.e, val, s.len), m + len)
<1>1. PICK d \in 0 .. len : s.len = len - d /\ Kept(1, UP, UM, b, s.e, m + d)
  BY DEF Staged
<1>2. PICK l \in Nat : l = s.len /\ l = len - d
  BY <1>1
<1>3. PICK k \in Nat : k = m + d /\ k + l = m + len
  BY <1>2
<1>4. Stretch(b, k, l, val) /\ Kept(1, UP, UM, b, s.e, k)
  BY <1>1, <1>2, <1>3, StretchPart
<1>5. CASE l = 0
  <2>1. k = m + len
    BY <1>3, <1>5
  <2> QED
    BY <1>2, <1>4, <1>5, <2>1
<1>6. CASE l # 0
  <2>1. Kept(1, UP, UM, b, Uah!AppendRest(s.e, val, l), k + l)
    BY <1>2, <1>4, <1>6, UahRest
  <2> QED
    BY <1>2, <1>3, <1>6, <2>1
<1> QED
  BY <1>5, <1>6

\* append_run: the whole run is encoded.
LEMMA UahAppend ==
  ASSUME NEW b, NEW e, NEW m \in Nat, Kept(1, UP, UM, b, e, m), e.words # <<>>,
         NEW run, NEW len \in Nat, len > 0, run.len = len, Stretch(b, m, len, run.val)
  PROVE  Kept(1, UP, UM, b, Uah!append_run(e, run), m + len)
<1> DEFINE w == R!Last(e.words)
           s == IF w.fill /\ w.val = run.val THEN Uah!ExtendFill(e, run.val, run.len)
                ELSE IF w.fill /\ w.cnt < UP THEN Uah!Fill2Literal(e, run.val, run.len)
                ELSE IF ~w.fill /\ e.remaining > 0 THEN Uah!FillUpLiteral(e, run.val, run.len)
                ELSE [e |-> e, len |-> run.len]
<1>1. Uah!append_run(e, run) = IF s.len = 0 THEN s.e ELSE Uah!AppendRest(s.e, run.val, s.len)
  BY UahHelpers DEF Uah!append_run, UP
<1>2. PICK v : v = run.val
  OBVIOUS
<1>3. Stretch(b, m, len, v)
  BY <1>2
<1>4. Staged(1, UP, UM, b, s, m, len) /\ (s.len # 0 => s.e.remaining = 0)
  <2>1. CASE w.fill /\ w.val = v
    <3>1. s = Uah!ExtendFill(e, v, len)
      BY <1>2, <2>1
    <3>2. LET z == Uah!ExtendFill(e, v, len)
          IN  Staged(1, UP, UM, b, z, m, len) /\ z.e.remaining = 0
      BY <1>3, <2>1, UahExtend
    <3> HIDE DEF s
    <3> QED
      BY <3>1, <3>2
  <2>2. CASE w.fill /\ w.val # v /\ w.cnt < UP
    <3>1. s = Uah!Fill2Literal(e, v, len)
      BY <1>2, <2>2
    <3>2. LET z == Uah!Fill2Literal(e, v, len)
          IN  Staged(1, UP, UM, b, z, m, len) /\ (z.len # 0 => z.e.remaining = 0)
      BY <1>3, <2>2, UahFill2Literal
    <3> HIDE DEF s
    <3> QED
      BY <3>1, <3>2
  <2>3. CASE ~w.fill /\ e.remaining > 0
    <3>1. s = Uah!FillUpLiteral(e, v, len)
      BY <1>2, <2>3
    <3>2. e.remaining # 0
      BY <2>3
    <3>3. LET z == Uah!FillUpLiteral(e, v, len)
          IN  Staged(1, UP, UM, b, z, m, len) /\ (z.len # 0 => z.e.remaining = 0)
      BY <1>3, <3>2, UahFillUp
    <3> HIDE DEF s
    <3> QED
      BY <3>1, <3>3
  <2>4. CASE /\ ~(w.fill /\ w.val = v) /\ ~(w.fill /\ w.val # v /\ w.cnt < UP)
             /\ ~(~w.fill /\ e.remaining > 0)
    <3>1. s = [e |-> e, len |-> len]
      BY <1>2, <2>4
    <3>2. 0 \in 0 .. len /\ len - 0 = len /\ m + 0 = m
      OBVIOUS
    <3>3. e.remaining = 0
      <4>1. e.remaining \in Nat /\ (e.remaining # 0 => ~w.fill)
        BY DEF Kept
      <4> HIDE DEF w
      <4> QED
        BY <2>4, <4>1
    <3> HIDE DEF s
    <3>4. Staged(1, UP, UM, b, s, m, len)
      BY <3>1, <3>2 DEF Staged
    <3> QED
      BY <3>1, <3>3, <3>4
  <2> HIDE DEF s, w
  <2> QED
    BY <2>1, <2>2, <2>3, <2>4
<1> HIDE DEF s
<1>5. Kept(1, UP, UM, b, IF s.len = 0 THEN s.e ELSE Uah!AppendRest(s.e, v, s.len), m + len)
  BY <1>3, <1>4, UahEnd
<1> QED
  BY <1>1, <1>2, <1>5

\* The first run goes into the fill of no bits that init made.
LEMMA UahFirst ==
  ASSUME NEW b, NEW run, NEW len \in Nat, len > 0, run.len = len, Stretch(b, 0, len, run.val)
  PROVE  Kept(1, UP, UM, b, Uah!append_run(Uah!init(run.val), run), len)
<1> DEFINE e == Uah!init(run.val)
           s == Uah!ExtendFill(e, run.val, len)
           f == BitsOf(1, UP, UM)
           W == Codewords(UP, UM)
<1>0. UP \in Nat /\ UP > 1 /\ UM \in Nat /\ UM > 0 /\ Sizes(1, UP, UM) /\ run.val \in BOOLEAN
  BY UahSizes DEF Stretch
<1>1. PICK v \in BOOLEAN : v = run.val
  BY <1>0
<1>2. e = [words |-> <<R!Fill(v, 0)>>, length |-> 0, remaining |-> 0]
  BY <1>1, UahHelpers DEF Uah!init
<1>3. /\ R!Last(e.words) = R!Fill(v, 0) /\ R!Front(e.words) = <<>>
      /\ R!Fill(v, 0).fill /\ R!Fill(v, 0).val = v /\ R!Fill(v, 0).cnt = 0
  <2>1. R!Last(<<R!Fill(v, 0)>>) = R!Fill(v, 0)
    BY DEF R!Last
  <2>2. R!Front(<<R!Fill(v, 0)>>) = <<>>
    BY DEF R!Front
  <2>3. R!Fill(v, 0).fill /\ R!Fill(v, 0).val = v /\ R!Fill(v, 0).cnt = 0
    BY DEF R!Fill
  <2> HIDE DEF e
  <2> QED
    BY <1>2, <2>1, <2>2, <2>3
<1> HIDE DEF e
<1>4. Uah!append_run(e, run) = IF s.len = 0 THEN s.e ELSE Uah!AppendRest(s.e, v, s.len)
  BY <1>1, <1>3, UahHelpers DEF Uah!append_run
<1>5. PICK c \in Nat : c = R!AtMost(UM, len) /\ c <= UM /\ c <= len /\ c > 0
  <2>1. R!AtMost(UM, len) > 0
    BY <1>0 DEF R!AtMost
  <2> QED
    BY <1>0, <2>1, AtMostOf
<1>6. s = [e |-> [words |-> <<R!Fill(v, c)>>, length |-> c, remaining |-> 0], len |-> len - c]
  <2>1. UM - 0 = UM /\ 0 + c = c
    BY <1>0
  <2>2. s = [e |-> [e EXCEPT !.words = R!ReplaceLast(@, R!Fill(v, 0 + c)),
                             !.length = @ + c], len |-> len - c]
    BY <1>1, <1>3, <1>5, <2>1, UahHelpers DEF Uah!ExtendFill, UM
  <2>3. R!ReplaceLast(e.words, R!Fill(v, c)) = <<R!Fill(v, c)>>
    BY <1>3 DEF R!ReplaceLast
  <2> HIDE DEF s
  <2> QED
    BY <1>2, <2>1, <2>2, <2>3
<1> HIDE DEF s
<1>7. <<>> \in Seq(W) /\ HoldUpTo(f, <<>>, b, 0, 0)
  <2>1. ViewBy(f, <<>>) = <<>>
    BY DEF ViewBy
  <2> HIDE DEF f
  <2> QED
    BY <2>1, SpellsNothing DEF HoldUpTo
<1>8. c \in 0 .. len /\ c \in 1 .. UM /\ c * 1 = c /\ 0 + c = c /\ c + 0 = c /\ 0 \in 0 .. UP - 1
  BY <1>0, <1>5
<1>9. Stretch(b, 0, c * 1, v)
  BY <1>1, <1>8, StretchPart
<1>10. /\ Append(<<>>, R!Fill(v, c)) \in Seq(W)
       /\ HoldUpTo(f, Append(<<>>, R!Fill(v, c)), b, 0 + c * 1, 0 + c * 1)
  BY <1>0, <1>7, <1>8, <1>9, AddFill
<1>11. PICK words \in Seq(W) : words = <<R!Fill(v, c)>> /\ HoldUpTo(f, words, b, c, c)
  <2>1. Append(<<>>, R!Fill(v, c)) = <<R!Fill(v, c)>>
    OBVIOUS
  <2> QED
    BY <1>8, <1>10, <2>1
<1>12. s.e = [words |-> words, length |-> c, remaining |-> 0] /\ s.len = len - c
  BY <1>6, <1>11
<1>13. Kept(1, UP, UM, b, s.e, 0 + c)
  BY <1>8, <1>11, <1>12 DEF Kept
<1>14. Staged(1, UP, UM, b, s, 0, len) /\ s.e.remaining = 0
  BY <1>8, <1>12, <1>13 DEF Staged
<1>15. Kept(1, UP, UM, b, IF s.len = 0 THEN s.e ELSE Uah!AppendRest(s.e, v, s.len), 0 + len)
  BY <1>1, <1>14, UahEnd
<1>16. 0 + len = len
  OBVIOUS
<1> QED
  BY <1>4, <1>15, <1>16 DEF e

\* uah takes the runs as all codecs do.
LEMMA UahRuns == \A b : Uah!RunsOf(b) = R!RunsOf(b)
BY DEF Uah!RunsOf, R!RunsOf, Uah!Ordered, R!Ordered, Uah!Pos, R!Pos, Uah!Cardinality, R!Cardinality

\* encode: the first run goes into the fill of no bits, the others behind it
LEMMA UahEncodes ==
  ASSUME NEW b \in [R!Pos -> BOOLEAN]
  PROVE  Kept(1, UP, UM, b, Uah!encode(b), N)
<1> DEFINE runs == R!RunsOf(b)
           Y == [words : Seq(Codewords(UP, UM)), length : Nat, remaining : 0 .. UP - 1]
<1>0. N \in Nat /\ UP \in Nat /\ UP > 1 /\ Sizes(1, UP, UM)
  BY UahSizes, WordCodecsAssumption
<1>1. PICK n, cut : RunsAt(b, runs, n, cut)
  BY RunsOfBitmap
<1> HIDE DEF runs
<1>2. /\ n \in Nat /\ n > 0 /\ Len(runs) = n /\ cut \in [0 .. n -> 0 .. N] /\ cut[0] = 0 /\ cut[n] = N
      /\ \A k \in 1 .. n :
           /\ runs[k].len \in Nat /\ runs[k].len > 0
           /\ cut[k] = cut[k - 1] + runs[k].len
           /\ Stretch(b, cut[k - 1], runs[k].len, runs[k].val)
      /\ runs[1].val = b[0]
  BY <1>1 DEF RunsAt
<1>z. PICK z : z = Uah!init(b[0])
  OBVIOUS
<1> DEFINE X == {z} \cup Y
           K(k) == {e \in X : IF k = 0 THEN e = z
                              ELSE Kept(1, UP, UM, b, e, cut[k]) /\ e.words # <<>>}
           Body(f) == [k \in 0 .. n |-> IF k = 0 THEN z ELSE Uah!append_run(f[k - 1], runs[k])]
           g == CHOOSE f : f = Body(f)
           step == [k \in 0 .. n |->
                      [e \in X |-> IF k # 0 /\ e \in K(k - 1) THEN Uah!append_run(e, runs[k]) ELSE e]]
<1>3. Uah!encode(b) = g[n]
  BY <1>2, <1>z, UahRuns DEF Uah!encode, runs
<1>4. \A e : \A m \in Nat : Kept(1, UP, UM, b, e, m) => e \in X
  BY DEF Kept
<1>5. z \in K(0)
  OBVIOUS
<1>6. ASSUME NEW k \in 1 .. n, NEW e \in K(k - 1)
      PROVE  Uah!append_run(e, runs[k]) \in K(k)
  <2>1. k - 1 \in 0 .. n /\ k \in 0 .. n /\ k # 0
    BY <1>2
  <2>2. PICK m \in Nat : m = cut[k - 1]
    BY <1>2, <2>1
  <2>3. PICK run : run = runs[k]
    OBVIOUS
  <2>4. PICK len \in Nat : len = run.len /\ len > 0 /\ cut[k] = m + len
    BY <1>2, <2>2, <2>3
  <2>5. Stretch(b, m, len, run.val)
    BY <1>2, <2>2, <2>3, <2>4
  <2>6. PICK a : a = Uah!append_run(e, run)
    OBVIOUS
  <2>7. Kept(1, UP, UM, b, a, m + len)
    <3>1. CASE k = 1
      <4>1. m = 0 /\ e = z /\ run.val = b[0] /\ m + len = len
        BY <1>2, <2>2, <2>3, <3>1
      <4>2. e = Uah!init(run.val)
        BY <1>z, <4>1
      <4>3. Stretch(b, 0, len, run.val)
        BY <2>5, <4>1
      <4>4. Kept(1, UP, UM, b, Uah!append_run(Uah!init(run.val), run), len)
        BY <2>4, <4>3, UahFirst
      <4> QED
        BY <2>6, <4>1, <4>2, <4>4
    <3>2. CASE k # 1
      <4>1. k - 1 # 0
        BY <3>2
      <4>2. Kept(1, UP, UM, b, e, m) /\ e.words # <<>>
        BY <2>2, <4>1
      <4> HIDE DEF K
      <4> QED
        BY <2>4, <2>5, <2>6, <4>2, UahAppend
    <3> QED
      BY <3>1, <3>2
  <2>8. PICK y \in Nat : y = m + len /\ y # 0
    BY <2>4
  <2>9. Kept(1, UP, UM, b, a, y) /\ cut[k] = y
    BY <2>4, <2>7, <2>8
  <2>10. a.words # <<>>
    BY <1>0, <2>8, <2>9, KeptNothing
  <2>11. a \in X
    BY <1>4, <2>9
  <2> HIDE DEF X
  <2> QED
    BY <2>1, <2>3, <2>6, <2>9, <2>10, <2>11
<1> HIDE DEF K
<1>7. \A m : K(m) \subseteq X
  BY DEF K
<1> HIDE DEF X
<1>8. step \in Steps(0, n, X)
  <2>1. ASSUME NEW k \in 0 .. n, NEW e \in X
        PROVE  (IF k # 0 /\ e \in K(k - 1) THEN Uah!append_run(e, runs[k]) ELSE e) \in X
    <3>1. CASE k # 0 /\ e \in K(k - 1)
      <4>1. k \in 1 .. n
        BY <1>2, <3>1
      <4>2. Uah!append_run(e, runs[k]) \in K(k)
        BY <1>6, <3>1, <4>1
      <4> QED
        BY <1>7, <3>1, <4>2
    <3>2. CASE ~(k # 0 /\ e \in K(k - 1))
      BY <3>2
    <3> QED
      BY <3>1, <3>2
  <2> QED
    BY <2>1 DEF Steps
<1>9. PICK f \in [0 .. n -> X] : FollowsUp(f, 0, n, z, step)
  <2>1. 0 \in Nat /\ n \in Nat /\ 0 <= n /\ z \in X
    BY <1>2, <1>5, <1>7
  <2> HIDE DEF step
  <2> QED
    BY <1>8, <2>1, FunctionUp
<1>10. \A k \in 0 .. n : f[k] = IF k = 0 THEN z ELSE step[k][f[k - 1]]
  BY <1>9 DEF FollowsUp
<1>11. \A k \in 1 .. n : f[k - 1] \in K(k - 1) =>
         f[k] = Uah!append_run(f[k - 1], runs[k])
  <2> TAKE k \in 1 .. n
  <2> HAVE f[k - 1] \in K(k - 1)
  <2>1. k \in 0 .. n /\ k # 0 /\ k - 1 \in 0 .. n
    BY <1>2
  <2>2. f[k - 1] \in X
    BY <1>9, <2>1
  <2>3. step[k][f[k - 1]] = Uah!append_run(f[k - 1], runs[k])
    BY <2>1, <2>2
  <2> QED
    BY <1>10, <2>1, <2>3
<1> HIDE DEF step
<1> DEFINE T == {k \in 0 .. n : f[k] \in K(k)}
<1>12. 0 .. n \subseteq T
  <2>1. 0 \in T
    BY <1>2, <1>5, <1>10
  <2>2. \A k \in 0 .. n - 1 : k \in T => k + 1 \in T
    <3> TAKE k \in 0 .. n - 1
    <3> HAVE k \in T
    <3>1. k + 1 \in 1 .. n /\ k + 1 \in 0 .. n /\ (k + 1) - 1 = k
      BY <1>2
    <3>2. f[k] \in K(k)
      OBVIOUS
    <3>3. f[k + 1] = Uah!append_run(f[k], runs[k + 1])
      BY <1>11, <3>1, <3>2
    <3>4. Uah!append_run(f[k], runs[k + 1]) \in K(k + 1)
      BY <1>6, <3>1, <3>2
    <3> QED
      BY <3>1, <3>3, <3>4
  <2>3. 0 \in Nat /\ n \in Nat
    BY <1>2
  <2> HIDE DEF T
  <2> QED
    BY <2>1, <2>2, <2>3, ReachedUp
<1>13. \A k \in 0 .. n : f[k] \in K(k)
  BY <1>12
<1>14. f = Body(f)
  <2>1. \A k \in 0 .. n : f[k] = Body(f)[k]
    <3> TAKE k \in 0 .. n
    <3>1. CASE k = 0
      BY <1>10, <3>1
    <3>2. CASE k # 0
      <4>1. k \in 1 .. n /\ k - 1 \in 0 .. n
        BY <1>2, <3>2
      <4>2. f[k] = Uah!append_run(f[k - 1], runs[k])
        BY <1>11, <1>13, <4>1
      <4> QED
        BY <3>2, <4>2
    <3> QED
      BY <3>1, <3>2
  <2> QED
    BY <1>9, <2>1
<1>15. g = Body(g)
  BY <1>14
<1> HIDE DEF g
<1>16. g[0] = z /\ \A k \in 1 .. n : g[k] = Uah!append_run(g[k - 1], runs[k])
  <2> DEFINE h == Body(g)
  <2>1. h[0] = z /\ \A k \in 1 .. n : h[k] = Uah!append_run(g[k - 1], runs[k])
    BY <1>2
  <2>2. g = h
    BY <1>15
  <2> HIDE DEF h
  <2> QED
    BY <2>1, <2>2
<1> DEFINE V == {k \in 0 .. n : g[k] \in K(k)}
<1>17. 0 .. n \subseteq V
  <2>1. 0 \in V
    BY <1>2, <1>5, <1>16
  <2>2. \A k \in 0 .. n - 1 : k \in V => k + 1 \in V
    <3> TAKE k \in 0 .. n - 1
    <3> HAVE k \in V
    <3>1. k + 1 \in 1 .. n /\ k + 1 \in 0 .. n /\ (k + 1) - 1 = k
      BY <1>2
    <3>2. g[k] \in K(k)
      OBVIOUS
    <3>3. g[k + 1] = Uah!append_run(g[k], runs[k + 1])
      BY <1>16, <3>1
    <3>4. Uah!append_run(g[k], runs[k + 1]) \in K(k + 1)
      BY <1>6, <3>1, <3>2
    <3> QED
      BY <3>1, <3>3, <3>4
  <2>3. 0 \in Nat /\ n \in Nat
    BY <1>2
  <2> HIDE DEF V
  <2> QED
    BY <2>1, <2>2, <2>3, ReachedUp
<1>18. g[n] \in K(n)
  <2>1. n \in 0 .. n
    BY <1>2
  <2> QED
    BY <1>17, <2>1
<1> QED
  BY <1>2, <1>3, <1>18 DEF K
\* uah keeps all bits, in words that are what they should be.
LEMMA UahSound ==
  ASSUME NEW b \in [R!Pos -> BOOLEAN], NEW c \in {"uah", "uah_skip"}
  PROVE  Sound(c, b)
<1> DEFINE e == Uah!encode(b)
<1>0. UP \in Nat /\ UM \in Nat /\ Sizes(1, UP, UM)
  BY UahSizes
<1>1. Kept(1, UP, UM, b, e, N)
  BY UahEncodes
<1>2. Encode(c, b) = e /\ c # "concise" /\ c # "bah" /\ c \notin {"xah", "xah_skip"}
  BY DEF Encode
<1> HIDE DEF e
<1>3. e.words \in Seq(Codewords(UP, UM)) /\ e.length = N
  BY <1>1 DEF Kept
<1>4. \A w \in Codewords(UP, UM) : Uah!WordOK(w)
  <2> TAKE w \in Codewords(UP, UM)
  <2>1. /\ w.fill \in BOOLEAN
        /\ w.fill => w.cnt \in 1 .. UM
        /\ ~w.fill => w.ones \subseteq 0 .. UP - 1
    BY KindOfWord
  <2> QED
    BY <2>1 DEF Uah!WordOK, UP, UM
<1>5. \A k \in DOMAIN e.words : e.words[k] \in Codewords(UP, UM)
  BY <1>3
<1>6. WordsOK(c, e)
  BY <1>2, <1>4, <1>5 DEF WordsOK
<1>7. View(c, e) = ViewBy(BitsOf(1, UP, UM), e.words)
  <2>1. ASSUME NEW w \in Codewords(UP, UM)
        PROVE  BitsOf(1, UP, UM)[w] =
                 IF w.fill THEN [size |-> w.cnt, ones |-> IF w.val THEN 0 .. w.cnt - 1 ELSE {}]
                 ELSE [size |-> Uah!payload_bit_cnt, ones |-> w.ones]
    <3>1. w.fill => w.cnt \in 1 .. UM
      BY KindOfWord
    <3>2. w.fill => w.cnt * 1 = w.cnt
      BY <1>0, <3>1
    <3> QED
      BY <3>2 DEF BitsOf, UP
  <2>2. View(c, e) = Uah!View(e.words)
    BY DEF View
  <2> QED
    BY <1>5, <2>1, <2>2 DEF Uah!View, ViewBy
<1>8. \E at : Reads(View(c, e), at, OnesOf(b))
  BY <1>0, <1>1, <1>7, KeptReads
<1> QED
  BY <1>2, <1>3, <1>6, <1>8 DEF Sound

-----------------------------------------------------------------------------
CP == Concise!payload_bit_cnt

\* Words of concise: a fill has at least two blocks, the first perhaps with a
\* dirty bit.
ConciseWords ==
  [fill : {FALSE}, ones : SUBSET (0 .. CP - 1)]
    \cup [fill : {TRUE}, val : BOOLEAN, cnt : Nat \ {0}, dirty : SUBSET (0 .. CP - 1)]

ConciseBitsOf == [w \in ConciseWords |-> [size |-> Concise!Size(w), ones |-> DirtyOnce(w)]]

FillBits(val, c, dirty) ==
  [size |-> (c + 1) * CP, ones |-> IF val THEN (0 .. (c + 1) * CP - 1) \ dirty ELSE dirty]

\* A word has two bits or more.
LEMMA ConciseSizes == CP \in Nat /\ CP > 1 /\ N \in Nat /\ \A c \in Nat : c * CP \in Nat
<1>1. CP \in Nat /\ CP > 1
  BY WordCodecsAssumption DEF CP, Concise!payload_bit_cnt
<1>2. N \in Nat
  BY WordCodecsAssumption
<1>3. \A c, p \in Nat : c * p \in Nat
  OBVIOUS
<1> QED
  BY <1>1, <1>2, <1>3

\* The helpers of concise are those that all codecs share.
LEMMA ConciseHelpers ==
  /\ \A words, w : Concise!ReplaceLast(words, w) = R!ReplaceLast(words, w)
  /\ \A words : Concise!Last(words) = R!Last(words)
  /\ \A ones : Concise!Literal(ones) = R!Literal(ones)
<1>1. \A words, w : Concise!ReplaceLast(words, w) = R!ReplaceLast(words, w)
  BY DEF Concise!ReplaceLast, R!ReplaceLast, Concise!Front, R!Front
<1>2. \A words : Concise!Last(words) = R!Last(words)
  BY DEF Concise!Last, R!Last
<1>3. \A ones : Concise!Literal(ones) = R!Literal(ones)
  BY DEF Concise!Literal, R!Literal
<1> QED
  BY <1>1, <1>2, <1>3

\* The two kinds of words
LEMMA ConciseKind ==
  ASSUME NEW w \in ConciseWords
  PROVE  /\ w.fill \in BOOLEAN
         /\ w.fill => /\ w.val \in BOOLEAN /\ w.cnt \in Nat \ {0}
                      /\ w.dirty \in SUBSET (0 .. CP - 1)
                      /\ w = Concise!make_fill_word(w.val, w.cnt, w.dirty)
         /\ ~w.fill => w.ones \in SUBSET (0 .. CP - 1)
<1> DEFINE L == [fill : {FALSE}, ones : SUBSET (0 .. CP - 1)]
           F == [fill : {TRUE}, val : BOOLEAN, cnt : Nat \ {0}, dirty : SUBSET (0 .. CP - 1)]
<1>1. w \in L \/ w \in F
  BY DEF ConciseWords
<1>2. CASE w \in L
  BY <1>2
<1>3. CASE w \in F
  BY <1>3 DEF Concise!make_fill_word
<1> QED
  BY <1>1, <1>2, <1>3

\* A literal, a fill, and their bits
LEMMA ConciseWordBits ==
  /\ ConciseBitsOf \in [ConciseWords -> Shown]
  /\ \A ones \in SUBSET (0 .. CP - 1) :
       /\ R!Literal(ones) \in ConciseWords
       /\ ~R!Literal(ones).fill /\ R!Literal(ones).ones = ones
       /\ ConciseBitsOf[R!Literal(ones)] = [size |-> CP, ones |-> ones]
  /\ \A val \in BOOLEAN, c \in Nat \ {0}, dirty \in SUBSET (0 .. CP - 1) :
       /\ Concise!make_fill_word(val, c, dirty) \in ConciseWords
       /\ Concise!make_fill_word(val, c, dirty).fill
       /\ ConciseBitsOf[Concise!make_fill_word(val, c, dirty)] = FillBits(val, c, dirty)
<1>1. ConciseBitsOf \in [ConciseWords -> Shown]
  <2>1. ASSUME NEW w \in ConciseWords
        PROVE  Concise!Size(w) \in Nat /\ DirtyOnce(w) \in SUBSET Nat
    <3>1. 0 .. CP - 1 \subseteq Nat
      BY ConciseSizes
    <3>2. CASE w.fill
      <4>1. w.cnt \in Nat /\ w.cnt + 1 \in Nat /\ w.dirty \subseteq Nat /\ w.val \in BOOLEAN
        BY <3>1, <3>2, ConciseKind
      <4>2. PICK size \in Nat : size = (w.cnt + 1) * CP
        BY <4>1, ConciseSizes
      <4>3. Concise!Size(w) = size
        BY <3>2, <4>2 DEF Concise!Size, CP
      <4>4. 0 .. size - 1 \subseteq Nat
        OBVIOUS
      <4> QED
        BY <3>2, <4>1, <4>3, <4>4 DEF DirtyOnce
    <3>3. CASE ~w.fill
      <4>1. Concise!Size(w) = CP /\ DirtyOnce(w) = w.ones
        BY <3>3 DEF Concise!Size, DirtyOnce, CP
      <4> QED
        BY <3>1, <3>3, <4>1, ConciseKind, ConciseSizes
    <3> QED
      BY <3>2, <3>3
  <2> QED
    BY <2>1 DEF ConciseBitsOf, Shown
<1>2. ASSUME NEW ones \in SUBSET (0 .. CP - 1)
      PROVE  /\ R!Literal(ones) \in ConciseWords
             /\ ~R!Literal(ones).fill /\ R!Literal(ones).ones = ones
             /\ ConciseBitsOf[R!Literal(ones)] = [size |-> CP, ones |-> ones]
  <2>1. /\ R!Literal(ones) \in ConciseWords
        /\ ~R!Literal(ones).fill /\ R!Literal(ones).ones = ones
    BY DEF R!Literal, ConciseWords
  <2> QED
    BY <2>1 DEF ConciseBitsOf, Concise!Size, DirtyOnce, CP
<1>3. ASSUME NEW val \in BOOLEAN, NEW c \in Nat \ {0}, NEW dirty \in SUBSET (0 .. CP - 1)
      PROVE  /\ Concise!make_fill_word(val, c, dirty) \in ConciseWords
             /\ Concise!make_fill_word(val, c, dirty).fill
             /\ ConciseBitsOf[Concise!make_fill_word(val, c, dirty)] = FillBits(val, c, dirty)
  <2>1. PICK w : w = Concise!make_fill_word(val, c, dirty)
    OBVIOUS
  <2>2. w \in ConciseWords /\ w.fill /\ w.val = val /\ w.cnt = c /\ w.dirty = dirty
    BY <2>1 DEF Concise!make_fill_word, ConciseWords
  <2>3. Concise!Size(w) = (c + 1) * CP
    BY <2>2 DEF Concise!Size, CP
  <2>4. ConciseBitsOf[w] = FillBits(val, c, dirty)
    BY <2>2, <2>3 DEF ConciseBitsOf, DirtyOnce, FillBits
  <2> QED
    BY <2>1, <2>2, <2>4
<1> QED
  BY <1>1, <1>2, <1>3

\* No 1-bits from m on up to n
Gap(b, m, n) == \A i \in OnesOf(b) : ~(m <= i /\ i < n)

\* Bits behind which there are only zeros
LEMMA GapPrefix ==
  ASSUME NEW b, NEW m \in Nat, NEW z \in Nat, m <= z, Gap(b, m, z)
  PROVE  Prefix(b, z) = Prefix(b, m)
<1>1. OnesOf(b) \subseteq Int
  BY WordCodecsAssumption DEF OnesOf, R!Pos
<1> QED
  BY <1>1 DEF Prefix, Gap

\* A word of zeros
LEMMA AddZeroWord ==
  ASSUME NEW words \in Seq(ConciseWords), NEW w \in ConciseWords, ConciseBitsOf[w].ones = {},
         NEW b, NEW m \in Nat, HoldUpTo(ConciseBitsOf, words, b, m, m),
         NEW z \in Nat, z = m + ConciseBitsOf[w].size, Gap(b, m, z)
  PROVE  /\ Append(words, w) \in Seq(ConciseWords)
         /\ HoldUpTo(ConciseBitsOf, Append(words, w), b, z, z)
<1>1. ConciseBitsOf \in [ConciseWords -> Shown]
  BY ConciseWordBits
<1>2. ConciseBitsOf[w].size \in Nat /\ m <= z
  BY <1>1 DEF Shown
<1>3. Prefix(b, z) = Prefix(b, m)
  BY <1>2, GapPrefix
<1>4. ConciseBitsOf[w].ones = {i \in 0 .. ConciseBitsOf[w].size - 1 : m + i \in Prefix(b, z)}
  <2>1. \A i \in 0 .. ConciseBitsOf[w].size - 1 : m + i \notin Prefix(b, m)
    BY <1>2 DEF Prefix
  <2> QED
    BY <1>3, <2>1
<1> QED
  BY <1>1, <1>2, <1>4, AddWord

\* Zeros: blocks of zeros behind what there is
LEMMA AddZeros ==
  ASSUME NEW words \in Seq(ConciseWords), NEW b, NEW m \in Nat,
         HoldUpTo(ConciseBitsOf, words, b, m, m),
         NEW cnt \in Nat, NEW z \in Nat, z = m + cnt * CP, Gap(b, m, z)
  PROVE  /\ words \o Concise!Zeros(cnt) \in Seq(ConciseWords)
         /\ HoldUpTo(ConciseBitsOf, words \o Concise!Zeros(cnt), b, z, z)
<1>1. CASE cnt = 0
  <2>1. Concise!Zeros(cnt) = <<>> /\ words \o <<>> = words
    BY <1>1 DEF Concise!Zeros
  <2>2. z = m
    BY <1>1, ConciseSizes
  <2> QED
    BY <2>1, <2>2
<1>2. CASE cnt # 0
  <2>1. PICK w \in ConciseWords :
          /\ Concise!Zeros(cnt) = <<w>>
          /\ ConciseBitsOf[w].ones = {} /\ ConciseBitsOf[w].size = cnt * CP
    <3>1. {} \in SUBSET (0 .. CP - 1)
      OBVIOUS
    <3>2. CASE cnt = 1
      <4>1. PICK w \in ConciseWords : w = R!Literal({}) /\ ConciseBitsOf[w] = [size |-> CP, ones |-> {}]
        BY <3>1, ConciseWordBits
      <4>2. Concise!Zeros(cnt) = <<w>>
        BY <3>2, <4>1, ConciseHelpers DEF Concise!Zeros
      <4> QED
        BY <3>2, <4>1, <4>2, ConciseSizes
    <3>3. CASE cnt # 1
      <4>1. cnt - 1 \in Nat \ {0} /\ (cnt - 1) + 1 = cnt
        BY <1>2, <3>3
      <4>2. PICK k \in Nat \ {0} : k = cnt - 1
        BY <4>1
      <4>3. PICK w \in ConciseWords : w = Concise!make_fill_word(FALSE, k, {})
                                      /\ ConciseBitsOf[w] = FillBits(FALSE, k, {})
        BY <3>1, ConciseWordBits
      <4>4. Concise!Zeros(cnt) = <<w>>
        BY <1>2, <3>3, <4>2, <4>3 DEF Concise!Zeros
      <4>5. ConciseBitsOf[w].ones = {} /\ ConciseBitsOf[w].size = (k + 1) * CP
        BY <4>3 DEF FillBits
      <4> QED
        BY <4>1, <4>2, <4>4, <4>5
    <3> QED
      BY <3>2, <3>3
  <2>2. words \o <<w>> = Append(words, w)
    OBVIOUS
  <2> QED
    BY <2>1, <2>2, AddZeroWord
<1> QED
  BY <1>1, <1>2

\* The last word of a block, without its bits
LEMMA LastLiteral ==
  ASSUME NEW words \in Seq(ConciseWords), words # <<>>, ~R!Last(words).fill,
         NEW b, NEW m \in Nat, NEW q \in Nat, q <= m,
         HoldUpTo(ConciseBitsOf, words, b, m, q + CP)
  PROVE  /\ R!Front(words) \in Seq(ConciseWords)
         /\ HoldUpTo(ConciseBitsOf, R!Front(words), b, q, q)
         /\ R!Last(words).ones = BitsFrom(CP, b, q, m)
         /\ R!Last(words).ones \in SUBSET (0 .. CP - 1)
<1> DEFINE w == R!Last(words)
           f == ConciseBitsOf
<1>1. f \in [ConciseWords -> Shown]
  BY ConciseWordBits
<1>2. w \in ConciseWords
  <2>1. R!Last(words) \in ConciseWords
    BY <1>1, ViewFront
  <2> QED
    BY <2>1
<1>3. f[w].size = CP /\ f[w].ones = w.ones
  BY <1>2 DEF ConciseBitsOf, Concise!Size, CP, DirtyOnce
<1>4. CP \in Nat /\ q + CP \in Nat /\ (q + CP) - CP = q
  BY ConciseSizes
<1> HIDE DEF f
<1>5. PICK n \in Nat : n = q + CP
  BY <1>4
<1>6. PICK p \in Nat : /\ p <= m /\ n = p + f[R!Last(words)].size
                       /\ HoldUpTo(f, R!Front(words), b, p, p)
                       /\ Holding(f[R!Last(words)], b, p, m)
  <2>1. n - f[R!Last(words)].size <= m /\ HoldUpTo(f, words, b, m, n)
    BY <1>3, <1>4, <1>5 DEF f
  <2> QED
    BY <1>1, <1>5, <2>1, DropWord
<1>7. p = q
  BY <1>3, <1>4, <1>5, <1>6
<1>8. R!Front(words) \in Seq(ConciseWords)
  BY <1>1, ViewFront
<1>9. w.ones = BitsFrom(CP, b, q, m)
  BY <1>3, <1>6, <1>7 DEF Holding, BitsFrom
<1>10. w.ones \in SUBSET (0 .. CP - 1)
  BY <1>2, ConciseKind
<1> QED
  BY <1>6, <1>7, <1>8, <1>9, <1>10 DEF f

\* The bits of a word of size s, and more bits, those of the bitmap from q on
Widened(b, ones, s, more, q, z) ==
  {i \in 0 .. s + more - 1 : IF i < s THEN i \in ones ELSE q + (i - s) \in Prefix(b, z)}

\* The sizes of the last word and of a word with more bits
Wider(words, w, s, more) ==
  ConciseBitsOf[R!Last(words)].size = s /\ ConciseBitsOf[w].size = s + more

\* A word in place of the last one, for its bits and those up to z
LEMMA WordGrows ==
  ASSUME NEW words \in Seq(ConciseWords), words # <<>>,
         NEW b, NEW q \in Nat, HoldUpTo(ConciseBitsOf, words, b, q, q),
         NEW w \in ConciseWords, NEW s \in Nat, NEW more \in Nat, Wider(words, w, s, more),
         NEW z \in Nat, z = q + more,
         ConciseBitsOf[w].ones = Widened(b, ConciseBitsOf[R!Last(words)].ones, s, more, q, z)
  PROVE  /\ Append(R!Front(words), w) \in Seq(ConciseWords)
         /\ HoldUpTo(ConciseBitsOf, Append(R!Front(words), w), b, z, z)
<1> DEFINE f == ConciseBitsOf
<1>1. f \in [ConciseWords -> Shown]
  BY ConciseWordBits
<1> HIDE DEF f
<1>s. f[R!Last(words)].size = s
  BY DEF f, Wider
<1>2. PICK p \in Nat : /\ q = p + s
                       /\ HoldUpTo(f, R!Front(words), b, p, p)
                       /\ Holding(f[R!Last(words)], b, p, q)
  <2>1. q - s <= q /\ HoldUpTo(f, words, b, q, q)
    BY DEF f
  <2>2. q - f[R!Last(words)].size <= q
    BY <1>s, <2>1
  <2>3. \E p \in Nat : /\ p <= q /\ q = p + f[R!Last(words)].size
                       /\ HoldUpTo(f, R!Front(words), b, p, p)
                       /\ Holding(f[R!Last(words)], b, p, q)
    BY <1>1, <2>1, <2>2, DropWord
  <2> QED
    BY <1>s, <2>3
<1>3. q = p + s
  BY <1>2
<1>4. R!Front(words) \in Seq(ConciseWords)
  BY <1>1, ViewFront
<1>5. PICK t \in Nat : t = s + more /\ p + t = z /\ f[w].size = t /\ p <= z
  <2>1. s + more \in Nat /\ p + (s + more) = z /\ p <= z
    BY <1>3
  <2> QED
    BY <2>1 DEF f, Wider
<1>6. f[w].ones = {i \in 0 .. t - 1 : p + i \in Prefix(b, z)}
  <2>1. \A i \in 0 .. t - 1 : i < s =>
          (i \in f[R!Last(words)].ones <=> p + i \in Prefix(b, z))
    <3> TAKE i \in 0 .. t - 1
    <3> HAVE i < s
    <3>1. i \in 0 .. f[R!Last(words)].size - 1
      BY <1>s
    <3>2. i \in f[R!Last(words)].ones <=> p + i \in Prefix(b, q)
      BY <1>2, <3>1 DEF Holding
    <3>3. i \in Nat /\ p + i < q /\ p + i < z
      BY <1>3
    <3> QED
      BY <3>2, <3>3 DEF Prefix
  <2>2. \A i \in 0 .. t - 1 : ~(i < s) => q + (i - s) = p + i
    BY <1>3
  <2>3. f[w].ones = {i \in 0 .. t - 1 : IF i < s THEN i \in f[R!Last(words)].ones
                                        ELSE q + (i - s) \in Prefix(b, z)}
    <3>1. f[w].ones = Widened(b, f[R!Last(words)].ones, s, more, q, z)
      BY DEF f
    <3> QED
      BY <1>5, <3>1 DEF Widened
  <2> QED
    BY <2>1, <2>2, <2>3
<1>7. /\ Append(R!Front(words), w) \in Seq(ConciseWords)
      /\ HoldUpTo(f, Append(R!Front(words), w), b, z, p + f[w].size)
  BY <1>1, <1>2, <1>3, <1>4, <1>5, <1>6, AddWord
<1> QED
  BY <1>5, <1>7 DEF f

\* AppendZeros: blocks of zeros behind the last word, or in a fill with it
LEMMA ZerosBehind ==
  ASSUME NEW words \in Seq(ConciseWords), words # <<>>, NEW b, NEW m \in Nat,
         HoldUpTo(ConciseBitsOf, words, b, m, m),
         NEW cnt \in Nat, NEW z \in Nat, z = m + cnt * CP, Gap(b, m, z)
  PROVE  /\ Concise!AppendZeros(words, cnt) \in Seq(ConciseWords)
         /\ HoldUpTo(ConciseBitsOf, Concise!AppendZeros(words, cnt), b, z, z)
<1> DEFINE last == R!Last(words)
           f == ConciseBitsOf
<1>1. CASE cnt > 0 /\ ~last.fill /\ Concise!Cardinality(last.ones) = 1
  <2>1. PICK w : w = Concise!make_fill_word(FALSE, cnt, last.ones)
    OBVIOUS
  <2>2. Concise!AppendZeros(words, cnt) = Append(R!Front(words), w)
    BY <1>1, <2>1, ConciseHelpers DEF Concise!AppendZeros, R!ReplaceLast
  <2>3. last \in ConciseWords
    BY ConciseWordBits, ViewFront
  <2>4. f[last].size = CP /\ f[last].ones = last.ones /\ last.ones \in SUBSET (0 .. CP - 1)
    BY <1>1, <2>3, ConciseKind DEF ConciseBitsOf, Concise!Size, CP, DirtyOnce
  <2>5. PICK more \in Nat : more = cnt * CP /\ (cnt + 1) * CP = CP + more /\ z = m + more
    <3>1. PICK p \in Nat : p = CP
      BY ConciseSizes
    <3>2. cnt * p \in Nat /\ (cnt + 1) * p = p + cnt * p
      OBVIOUS
    <3> QED
      BY <3>1, <3>2
  <2>6. w \in ConciseWords /\ f[w] = FillBits(FALSE, cnt, last.ones)
    <3>1. cnt \in Nat \ {0} /\ FALSE \in BOOLEAN
      BY <1>1
    <3>2. PICK d \in SUBSET (0 .. CP - 1) : d = last.ones
      BY <2>4
    <3> HIDE DEF last, f
    <3>3. w = Concise!make_fill_word(FALSE, cnt, d)
      BY <2>1, <3>2
    <3>4. /\ Concise!make_fill_word(FALSE, cnt, d) \in ConciseWords
          /\ ConciseBitsOf[Concise!make_fill_word(FALSE, cnt, d)] = FillBits(FALSE, cnt, d)
      BY <3>1, ConciseWordBits
    <3> QED
      BY <3>2, <3>3, <3>4 DEF f
  <2>7. f[w].size = CP + more /\ f[w].ones = last.ones
    BY <2>5, <2>6 DEF FillBits
  <2> HIDE DEF last
  <2>8. f[w].ones = Widened(b, f[last].ones, CP, more, m, z)
    <3>1. \A i \in 0 .. CP + more - 1 : ~(i < CP) => m + (i - CP) \notin Prefix(b, z)
      <4> TAKE i \in 0 .. CP + more - 1
      <4> HAVE ~(i < CP)
      <4>1. m + (i - CP) >= m /\ m + (i - CP) < z
        BY <2>5, ConciseSizes
      <4> QED
        BY <4>1 DEF Prefix, Gap
    <3>2. \A i \in last.ones : i \in 0 .. CP + more - 1 /\ i < CP
      BY <2>4, ConciseSizes
    <3> QED
      BY <2>4, <2>7, <3>1, <3>2 DEF Widened
  <2>9. PICK s \in Nat : s = CP
    BY ConciseSizes
  <2>10. z = m + more /\ Wider(words, w, s, more)
    BY <2>4, <2>5, <2>7, <2>9 DEF Wider, last
  <2>11. f[w].ones = Widened(b, f[last].ones, s, more, m, z)
    BY <2>8, <2>9
  <2> QED
    BY <2>2, <2>6, <2>10, <2>11, WordGrows DEF last
<1>2. CASE ~(cnt > 0 /\ ~last.fill /\ Concise!Cardinality(last.ones) = 1)
  <2>1. Concise!AppendZeros(words, cnt) = words \o Concise!Zeros(cnt)
    BY <1>2, ConciseHelpers DEF Concise!AppendZeros
  <2> QED
    BY <2>1, AddZeros
<1> QED
  BY <1>1, <1>2

BlockBegin(q) == \E k \in Nat : q = k * CP

\* Words that hold the bitmap up to the 1-bit x, and end with its block: the
\* last one is a literal, or a fill that is full.
KeptTo(b, words, x) ==
  /\ words \in Seq(ConciseWords) /\ words # <<>>
  /\ \E q \in Nat :
       /\ BlockBegin(q) /\ q <= x /\ x < q + CP
       /\ HoldUpTo(ConciseBitsOf, words, b, x + 1, q + CP)
       /\ R!Last(words).fill => x + 1 = q + CP

FullBlock(b, q, z) == \A j \in 0 .. CP - 1 : q + j \in Prefix(b, z)

\* A block of 1-bits behind a word of 1-bits, but for some in its first block
LEMMA WidenedByOnes ==
  ASSUME NEW b, NEW s \in Nat, CP <= s, NEW d \in SUBSET (0 .. CP - 1),
         NEW q \in Nat, NEW z, FullBlock(b, q, z)
  PROVE  (0 .. s + CP - 1) \ d = Widened(b, (0 .. s - 1) \ d, s, CP, q, z)
<1>1. PICK p \in Nat : p = CP
  BY ConciseSizes
<1>2. ASSUME NEW i \in 0 .. s + p - 1
      PROVE  i \notin d <=> IF i < s THEN i \in (0 .. s - 1) \ d ELSE q + (i - s) \in Prefix(b, z)
  <2>1. CASE i < s
    <3>1. i \in 0 .. s - 1
      BY <2>1
    <3> QED
      BY <2>1, <3>1
  <2>2. CASE ~(i < s)
    <3>1. i - s \in 0 .. p - 1 /\ i \notin 0 .. p - 1
      BY <1>1, <2>2
    <3> QED
      BY <1>1, <2>2, <3>1 DEF FullBlock
  <2> QED
    BY <2>1, <2>2
<1> QED
  BY <1>1, <1>2 DEF Widened

\* A block of 1-bits joins the word before it.
LEMMA JoinOnes ==
  ASSUME NEW words \in Seq(ConciseWords), words # <<>>,
         NEW b, NEW q \in Nat, HoldUpTo(ConciseBitsOf, words, b, q, q),
         NEW c \in Nat, NEW d \in SUBSET (0 .. CP - 1), NEW z \in Nat, z = q + CP,
         NEW s \in Nat, s = (c + 1) * CP,
         ConciseBitsOf[R!Last(words)].size = s,
         ConciseBitsOf[R!Last(words)].ones = (0 .. s - 1) \ d,
         FullBlock(b, q, z)
  PROVE  LET n == Append(R!Front(words), Concise!make_fill_word(TRUE, c + 1, d))
         IN  /\ n \in Seq(ConciseWords) /\ n # <<>> /\ R!Last(n).fill
             /\ HoldUpTo(ConciseBitsOf, n, b, z, z)
<1>1. PICK w : w = Concise!make_fill_word(TRUE, c + 1, d)
  OBVIOUS
<1>2. PICK p \in Nat : p = CP
  BY ConciseSizes
<1>3. p <= s /\ ((c + 1) + 1) * p = s + p
  <2>1. c * p \in Nat /\ (c + 1) * p = c * p + p /\ ((c + 1) + 1) * p = c * p + p + p
    OBVIOUS
  <2> QED
    BY <1>2, <2>1
<1>4. w \in ConciseWords /\ w.fill /\ ConciseBitsOf[w] = FillBits(TRUE, c + 1, d)
  <2>1. c + 1 \in Nat \ {0} /\ TRUE \in BOOLEAN
    OBVIOUS
  <2>2. PICK k \in Nat \ {0} : k = c + 1
    BY <2>1
  <2>3. w = Concise!make_fill_word(TRUE, k, d)
    BY <1>1, <2>2
  <2>4. /\ Concise!make_fill_word(TRUE, k, d) \in ConciseWords
        /\ Concise!make_fill_word(TRUE, k, d).fill
        /\ ConciseBitsOf[Concise!make_fill_word(TRUE, k, d)] = FillBits(TRUE, k, d)
    BY <2>1, ConciseWordBits
  <2> QED
    BY <2>2, <2>3, <2>4
<1>5. ConciseBitsOf[w].size = s + p /\ ConciseBitsOf[w].ones = (0 .. s + p - 1) \ d
  BY <1>2, <1>3, <1>4 DEF FillBits
<1>6. Wider(words, w, s, p)
  BY <1>5 DEF Wider
<1>7. ConciseBitsOf[w].ones = Widened(b, ConciseBitsOf[R!Last(words)].ones, s, p, q, z)
  <2>1. CP <= s
    BY <1>2, <1>3
  <2>2. (0 .. s + CP - 1) \ d = Widened(b, (0 .. s - 1) \ d, s, CP, q, z)
    BY <2>1, WidenedByOnes
  <2> QED
    BY <1>2, <1>5, <2>2
<1>8. z = q + p
  BY <1>2
<1>9. /\ Append(R!Front(words), w) \in Seq(ConciseWords)
      /\ HoldUpTo(ConciseBitsOf, Append(R!Front(words), w), b, z, z)
  BY <1>4, <1>6, <1>7, <1>8, WordGrows
<1>10. R!Front(words) \in Seq(ConciseWords)
  BY ConciseWordBits, ViewFront
<1>11. Append(R!Front(words), w) # <<>> /\ R!Last(Append(R!Front(words), w)) = w
  <2>1. PICK u \in Seq(ConciseWords) : u = R!Front(words)
    BY <1>10
  <2>2. Len(Append(u, w)) = Len(u) + 1 /\ Append(u, w)[Len(u) + 1] = w /\ Append(u, w) # <<>>
    BY <1>4, AppendProperties
  <2> QED
    BY <2>1, <2>2 DEF R!Last
<1> QED
  BY <1>1, <1>4, <1>9, <1>11

\* A literal with the 1-bit i as its last one
LEMMA LiteralKept ==
  ASSUME NEW front \in Seq(ConciseWords), NEW b, NEW q \in Nat, BlockBegin(q),
         HoldUpTo(ConciseBitsOf, front, b, q, q),
         NEW i \in Nat, q <= i, i < q + CP, NEW ones, ones = BitsFrom(CP, b, q, i + 1)
  PROVE  /\ KeptTo(b, Append(front, R!Literal(ones)), i)
         /\ R!Last(Append(front, R!Literal(ones))) = R!Literal(ones)
         /\ R!Literal(ones) \in ConciseWords /\ R!Literal(ones).ones = ones
<1> DEFINE f == ConciseBitsOf
<1>1. ones \in SUBSET (0 .. CP - 1)
  BY DEF BitsFrom
<1>2. PICK l \in ConciseWords : l = R!Literal(ones) /\ ~l.fill /\ l.ones = ones
                                /\ f[l] = [size |-> CP, ones |-> ones]
  BY <1>1, ConciseWordBits
<1>3. f \in [ConciseWords -> Shown]
  BY ConciseWordBits
<1> HIDE DEF f
<1>4. PICK x \in Nat : x = i + 1 /\ q <= x
  OBVIOUS
<1>5. f[l].size = CP /\ f[l].ones = {j \in 0 .. f[l].size - 1 : q + j \in Prefix(b, x)}
  BY <1>2, <1>4 DEF BitsFrom
<1>6. HoldUpTo(f, front, b, q, q)
  BY DEF f
<1>7. Append(front, l) \in Seq(ConciseWords) /\ HoldUpTo(f, Append(front, l), b, x, q + CP)
  BY <1>3, <1>4, <1>5, <1>6, AddWord
<1>8. Append(front, l) # <<>> /\ R!Last(Append(front, l)) = l
  <2>1. /\ Len(Append(front, l)) = Len(front) + 1 /\ Append(front, l)[Len(front) + 1] = l
        /\ Append(front, l) # <<>>
    BY <1>2, AppendProperties
  <2> QED
    BY <2>1 DEF R!Last
<1>9. KeptTo(b, Append(front, l), i)
  BY <1>2, <1>4, <1>7, <1>8 DEF KeptTo, f
<1> QED
  BY <1>2, <1>8, <1>9

\* compress: a block of 1-bits joins a fill, or a literal that becomes one.
LEMMA Compressed ==
  ASSUME NEW front \in Seq(ConciseWords), NEW b, NEW q \in Nat, BlockBegin(q),
         HoldUpTo(ConciseBitsOf, front, b, q, q),
         NEW i \in Nat, q <= i, i < q + CP, NEW ones, ones = BitsFrom(CP, b, q, i + 1)
  PROVE  KeptTo(b, Concise!compress(Append(front, R!Literal(ones))), i)
<1> DEFINE l == R!Literal(ones)
           n == Append(front, l)
           prev == R!Last(front)
<1>1. KeptTo(b, n, i) /\ R!Last(n) = l /\ l \in ConciseWords /\ l.ones = ones
  BY LiteralKept
<1>2. Len(n) = Len(front) + 1 /\ Len(front) \in Nat
  BY <1>1, AppendProperties
<1>3. front # <<>> => /\ Len(front) > 0 /\ n[Len(n) - 1] = prev
                      /\ SubSeq(n, 1, Len(n) - 2) = R!Front(front)
  <2> SUFFICES ASSUME front # <<>>
               PROVE  /\ Len(front) > 0 /\ n[Len(n) - 1] = prev
                      /\ SubSeq(n, 1, Len(n) - 2) = R!Front(front)
    OBVIOUS
  <2>1. PICK k \in Nat : k = Len(front) /\ k > 0
    BY <1>2, EmptySeq
  <2>2. Len(n) - 1 = k /\ Len(n) - 2 = k - 1
    BY <1>2, <2>1
  <2>3. \A j \in 1 .. k : n[j] = front[j]
    BY <1>1, <2>1, AppendProperties
  <2>4. n[k] = prev
    BY <2>1, <2>3 DEF R!Last
  <2>5. SubSeq(n, 1, k - 1) = SubSeq(front, 1, k - 1)
    <3> HIDE DEF n, prev
    <3>1. \A j \in 1 .. k - 1 : n[j] = front[j]
      BY <2>3
    <3>2. n \in Seq(ConciseWords) /\ Len(n) = k + 1
      BY <1>1, <1>2, <2>1 DEF KeptTo
    <3> QED
      BY <2>1, <3>1, <3>2
  <2>6. R!Front(front) = SubSeq(front, 1, k - 1)
    BY <2>1 DEF R!Front
  <2> HIDE DEF n, prev
  <2> QED
    BY <2>1, <2>2, <2>4, <2>5, <2>6
<1>4. Concise!Block = 0 .. CP - 1
  BY DEF Concise!Block, CP
<1>5. CASE front = <<>> \/ ones # 0 .. CP - 1
  <2>1. Len(n) < 2 \/ R!Last(n).ones # Concise!Block
    BY <1>1, <1>2, <1>4, <1>5, EmptySeq
  <2>2. Concise!compress(n) = n
    BY <2>1, ConciseHelpers DEF Concise!compress
  <2> HIDE DEF n
  <2> QED
    BY <1>1, <2>2 DEF n
<1>6. CASE front # <<>> /\ ones = 0 .. CP - 1
  <2> DEFINE kept == R!Front(front)
             off == (0 .. CP - 1) \ prev.ones
             joined == IF prev.fill
                       THEN IF prev.val THEN Append(kept, [prev EXCEPT !.cnt = @ + 1]) ELSE n
                       ELSE IF Concise!Cardinality(off) <= 1
                         THEN Append(kept, Concise!make_fill_word(TRUE, 1, off)) ELSE n
  <2>1. Concise!compress(n) = joined
    <3>1. ~(Len(n) < 2 \/ R!Last(n).ones # Concise!Block)
      BY <1>1, <1>2, <1>3, <1>4, <1>6
    <3>2. n[Len(n) - 1] = prev /\ SubSeq(n, 1, Len(n) - 2) = kept
      BY <1>3, <1>6
    <3> HIDE DEF n, prev, kept
    <3> QED
      BY <1>4, <3>1, <3>2, ConciseHelpers DEF Concise!compress
  <2>2. PICK z \in Nat : z = q + CP /\ z = i + 1
    <3>1. PICK p \in Nat : p = CP /\ p > 1
      BY ConciseSizes
    <3>2. p - 1 \in BitsFrom(CP, b, q, i + 1)
      BY <1>6, <3>1
    <3>3. q + (p - 1) < i + 1
      BY <3>2 DEF BitsFrom, Prefix
    <3> QED
      BY <3>1, <3>3
  <2>3. FullBlock(b, q, z)
    BY <1>6, <2>2 DEF FullBlock, BitsFrom
  <2>4. ASSUME NEW c \in Nat, NEW d \in SUBSET (0 .. CP - 1), NEW s \in Nat, s = (c + 1) * CP,
               ConciseBitsOf[prev].size = s, ConciseBitsOf[prev].ones = (0 .. s - 1) \ d
        PROVE  KeptTo(b, Append(kept, Concise!make_fill_word(TRUE, c + 1, d)), i)
    <3>1. PICK w : w = Append(kept, Concise!make_fill_word(TRUE, c + 1, d))
      OBVIOUS
    <3>2. /\ w \in Seq(ConciseWords) /\ w # <<>> /\ R!Last(w).fill
          /\ HoldUpTo(ConciseBitsOf, w, b, z, z)
      BY <1>6, <2>2, <2>3, <2>4, <3>1, JoinOnes
    <3>3. KeptTo(b, w, i)
      BY <2>2, <3>2 DEF KeptTo
    <3> QED
      BY <3>1, <3>3
  <2>5. prev \in ConciseWords
    BY <1>6, ConciseWordBits, ViewFront
  <2>6. CASE prev.fill /\ prev.val
    <3>1. PICK c \in Nat \ {0}, d \in SUBSET (0 .. CP - 1) : prev = Concise!make_fill_word(TRUE, c, d)
      <4> HIDE DEF prev
      <4>1. /\ prev.cnt \in Nat \ {0} /\ prev.dirty \in SUBSET (0 .. CP - 1) /\ prev.val = TRUE
            /\ prev = Concise!make_fill_word(prev.val, prev.cnt, prev.dirty)
        BY <2>5, <2>6, ConciseKind
      <4> QED
        BY <4>1
    <3>2. ConciseBitsOf[prev] = FillBits(TRUE, c, d)
      <4>1. TRUE \in BOOLEAN
        OBVIOUS
      <4>2. ConciseBitsOf[Concise!make_fill_word(TRUE, c, d)] = FillBits(TRUE, c, d)
        BY <4>1, ConciseWordBits
      <4> HIDE DEF prev
      <4> QED
        BY <3>1, <4>2
    <3>3. PICK s \in Nat : s = (c + 1) * CP
      BY ConciseSizes
    <3>4. ConciseBitsOf[prev].size = s /\ ConciseBitsOf[prev].ones = (0 .. s - 1) \ d
      BY <3>2, <3>3 DEF FillBits
    <3>5. joined = Append(kept, Concise!make_fill_word(TRUE, c + 1, d))
      <4> HIDE DEF prev, kept, n
      <4>1. [prev EXCEPT !.cnt = @ + 1] = Concise!make_fill_word(TRUE, c + 1, d)
        <5>1. prev = [fill |-> TRUE, val |-> TRUE, cnt |-> c, dirty |-> d]
          BY <3>1 DEF Concise!make_fill_word
        <5>2. [prev EXCEPT !.cnt = @ + 1] =
                [fill |-> TRUE, val |-> TRUE, cnt |-> c + 1, dirty |-> d]
          <6>1. prev.cnt = c
            BY <5>1
          <6>2. PICK m : m = c + 1
            OBVIOUS
          <6>3. [prev EXCEPT !.cnt = @ + 1] = [prev EXCEPT !.cnt = m]
            BY <6>1, <6>2
          <6>4. [prev EXCEPT !.cnt = m] = [fill |-> TRUE, val |-> TRUE, cnt |-> m, dirty |-> d]
            <7>1. \A t, x, y : [[fill |-> t, val |-> t, cnt |-> x, dirty |-> y] EXCEPT !.cnt = m]
                                 = [fill |-> t, val |-> t, cnt |-> m, dirty |-> y]
              OBVIOUS
            <7> QED
              BY <5>1, <7>1, Zenon
          <6> QED
            BY <6>2, <6>3, <6>4
        <5> QED
          BY <5>2 DEF Concise!make_fill_word
      <4> QED
        BY <2>6, <4>1
    <3>6. KeptTo(b, Append(kept, Concise!make_fill_word(TRUE, c + 1, d)), i)
      BY <2>4, <3>3, <3>4
    <3> HIDE DEF joined, kept, prev
    <3> QED
      BY <2>1, <3>5, <3>6, Zenon
  <2>7. CASE ~prev.fill /\ Concise!Cardinality(off) <= 1
    <3>1. ConciseBitsOf[prev].size = CP /\ ConciseBitsOf[prev].ones = prev.ones
      BY <2>5, <2>7 DEF ConciseBitsOf, Concise!Size, CP, DirtyOnce
    <3>2. prev.ones \in SUBSET (0 .. CP - 1)
      BY <2>5, <2>7, ConciseKind
    <3>3. off \in SUBSET (0 .. CP - 1) /\ prev.ones = (0 .. CP - 1) \ off
      BY <3>2
    <3>4. PICK s \in Nat : s = CP /\ s = (0 + 1) * CP
      BY ConciseSizes
    <3>5. joined = Append(kept, Concise!make_fill_word(TRUE, 0 + 1, off))
      <4>1. 0 + 1 = 1
        OBVIOUS
      <4> HIDE DEF prev, kept, off, n
      <4> QED
        BY <2>7, <4>1
    <3> HIDE DEF joined, kept, prev, off
    <3>6. ConciseBitsOf[prev].size = s /\ ConciseBitsOf[prev].ones = (0 .. s - 1) \ off /\ 0 \in Nat
      BY <3>1, <3>3, <3>4
    <3>7. KeptTo(b, Append(kept, Concise!make_fill_word(TRUE, 0 + 1, off)), i)
      BY <2>4, <3>3, <3>4, <3>6
    <3> QED
      BY <2>1, <3>5, <3>7
  <2>8. CASE ~(prev.fill /\ prev.val) /\ ~(~prev.fill /\ Concise!Cardinality(off) <= 1)
    <3>1. joined = n
      BY <2>8
    <3> HIDE DEF joined, n
    <3> QED
      BY <1>1, <2>1, <3>1 DEF n
  <2> HIDE DEF joined, off, prev
  <2> QED
    BY <2>6, <2>7, <2>8
<1> QED
  BY <1>5, <1>6

\* The literal of a block that gets the 1-bit i
LEMMA OneMoreBit ==
  ASSUME NEW b, NEW q \in Nat, NEW m \in Nat, q <= m, NEW i \in Nat, m <= i, i < q + CP,
         Gap(b, m, i), i \in OnesOf(b), NEW r \in Nat, r = i - q
  PROVE  BitsFrom(CP, b, q, i + 1) = BitsFrom(CP, b, q, m) \cup {r}
<1>1. PICK p \in Nat : p = CP
  BY ConciseSizes
<1>2. r \in 0 .. p - 1 /\ q + r = i
  BY <1>1
<1>3. ASSUME NEW j \in 0 .. p - 1
      PROVE  q + j \in Prefix(b, i + 1) <=> q + j \in Prefix(b, m) \/ j = r
  <2>1. PICK n \in Nat : n = q + j
    OBVIOUS
  <2>2. n = i <=> j = r
    BY <1>2, <2>1
  <2>3. n \in Prefix(b, i + 1) <=> n \in Prefix(b, m) \/ n = i
    <3>1. n \in OnesOf(b) /\ n < i => n < m
      BY DEF Gap
    <3>2. n < i + 1 <=> n < i \/ n = i
      OBVIOUS
    <3>3. n < m => n < i + 1
      OBVIOUS
    <3> QED
      BY <3>1, <3>2, <3>3 DEF Prefix
  <2> QED
    BY <2>1, <2>2, <2>3
<1> QED
  BY <1>1, <1>2, <1>3 DEF BitsFrom

\* append: a 1-bit and the 0-bits before it
LEMMA ConciseAppend ==
  ASSUME NEW b, NEW words, NEW x \in Nat, KeptTo(b, words, x),
         NEW i \in Nat, x < i, Gap(b, x + 1, i), i \in OnesOf(b)
  PROVE  LET e == Concise!append([words |-> words, max |-> x], i)
         IN  KeptTo(b, e.words, i) /\ e.max = i /\ e \in [words : Seq(ConciseWords), max : Nat]
<1> DEFINE e == [words |-> words, max |-> x]
           bit_pos == (x % CP) + i - x
           active == IF bit_pos < CP THEN words
                     ELSE Append(Concise!AppendZeros(words, (bit_pos \div CP) - 1), R!Literal({}))
           ones == R!Last(active).ones \cup {bit_pos % CP}
           new == Concise!compress(Append(R!Front(active), R!Literal(ones)))
<1>1. PICK q \in Nat, k \in Nat :
        /\ q = k * CP /\ q <= x /\ x < q + CP
        /\ HoldUpTo(ConciseBitsOf, words, b, x + 1, q + CP)
        /\ R!Last(words).fill => x + 1 = q + CP
  BY DEF KeptTo, BlockBegin
<1>2. words \in Seq(ConciseWords) /\ words # <<>>
  BY DEF KeptTo
<1>3. PICK p \in Nat : p = CP /\ p > 0
  BY ConciseSizes
<1>4. PICK t \in Nat : t = i - q /\ t = bit_pos
  <2>1. PICK r \in Nat : r = x - q /\ r \in 0 .. p - 1 /\ x = q + r
    BY <1>1, <1>3
  <2>2. (p * k + r) % p = r
    BY <1>3, <2>1, PlaceInBlock
  <2>3. p * k = k * p
    BY <1>3
  <2>4. x % CP = r
    BY <1>1, <1>3, <2>1, <2>2, <2>3
  <2>5. i - q \in Nat /\ i - q = r + i - x
    BY <1>1, <2>1
  <2> QED
    BY <2>4, <2>5
<1>5. Concise!append(e, i) = [words |-> new, max |-> i]
  BY <1>2, ConciseHelpers DEF Concise!append, R!ReplaceLast, CP
<1>6. PICK m \in Nat : m = x + 1 /\ Gap(b, m, i) /\ q <= m /\ m <= i
                       /\ HoldUpTo(ConciseBitsOf, words, b, m, q + CP)
  BY <1>1
<1> HIDE DEF bit_pos
<1>7. ASSUME t < p PROVE KeptTo(b, new, i)
  <2>1. i < q + CP
    BY <1>3, <1>4, <1>7
  <2>2. ~R!Last(words).fill
    BY <1>1, <1>6, <2>1
  <2>3. /\ R!Front(words) \in Seq(ConciseWords)
        /\ HoldUpTo(ConciseBitsOf, R!Front(words), b, q, q)
        /\ R!Last(words).ones = BitsFrom(CP, b, q, m)
    BY <1>2, <1>6, <2>2, LastLiteral
  <2>4. active = words
    BY <1>3, <1>4, <1>7
  <2>5. t % p = t
    <3>1. t \in 0 .. p - 1 /\ 0 \in Nat
      BY <1>7
    <3>2. (p * 0 + t) % p = t
      BY <1>3, <3>1, PlaceInBlock
    <3>3. p * 0 + t = t
      BY <1>3
    <3> QED
      BY <3>2, <3>3
  <2>6. ones = BitsFrom(CP, b, q, m) \cup {t}
    <3> HIDE DEF active
    <3> QED
      BY <1>3, <1>4, <2>3, <2>4, <2>5
  <2>7. ones = BitsFrom(CP, b, q, i + 1)
    <3> HIDE DEF ones
    <3> QED
      BY <1>4, <1>6, <2>1, <2>6, OneMoreBit
  <2>8. BlockBegin(q)
    BY <1>1 DEF BlockBegin
  <2>9. q <= i
    BY <1>6
  <2> HIDE DEF ones, active
  <2>10. KeptTo(b, Concise!compress(Append(R!Front(words), R!Literal(ones))), i)
    BY <2>1, <2>3, <2>7, <2>8, <2>9, Compressed
  <2> QED
    BY <2>4, <2>10
<1>8. ASSUME ~(t < p) PROVE KeptTo(b, new, i)
  <2>1. PICK c \in Nat, r \in Nat : /\ c = t \div p /\ r = t % p /\ c > 0 /\ r < p
                                    /\ t = p * c + r
    <3>1. /\ t \div p \in Nat /\ t % p \in 0 .. p - 1
          /\ p * (t \div p) \in Nat /\ t = p * (t \div p) + (t % p)
      BY <1>3, BlockOf
    <3>2. PICK c \in Nat, r \in Nat : c = t \div p /\ r = t % p /\ r < p /\ t = p * c + r
      BY <3>1
    <3>3. c > 0
      <4> SUFFICES ASSUME c = 0 PROVE FALSE
        OBVIOUS
      <4>1. p * c = 0
        BY <1>3
      <4> QED
        BY <1>8, <3>2, <4>1
    <3> QED
      BY <3>2, <3>3
  <2>2. PICK cnt \in Nat : cnt = c - 1 /\ c = cnt + 1
    BY <2>1
  <2>3. PICK g \in Nat : g = q + p
    BY <1>1
  <2>4. PICK y \in Nat : y = g + cnt * p /\ i = y + r /\ y = (k + c) * p /\ g <= y
    <3>1. /\ p * c = cnt * p + p /\ cnt * p \in Nat /\ (k + c) * p = k * p + (cnt * p + p)
      BY <1>3, <2>2
    <3>2. PICK w \in Nat : w = cnt * p
      BY <3>1
    <3>3. i = q + t
      BY <1>4
    <3>4. t = (w + p) + r
      BY <2>1, <3>1, <3>2
    <3>5. (k + c) * p = q + (w + p)
      BY <1>1, <1>3, <3>1, <3>2
    <3>6. q + (w + p) = g + w /\ i = (g + w) + r /\ g + w \in Nat /\ g <= g + w
      BY <2>3, <3>3, <3>4
    <3> QED
      BY <3>2, <3>5, <3>6
  <2> DEFINE az == Concise!AppendZeros(words, cnt)
  <2>5. m <= g /\ g <= i /\ y <= i
    BY <1>1, <1>3, <1>6, <2>3, <2>4
  <2>6. Gap(b, g, y) /\ Gap(b, m, g) /\ Gap(b, y, i)
    <3>1. OnesOf(b) \subseteq Int
      BY WordCodecsAssumption DEF OnesOf, R!Pos
    <3> QED
      BY <1>6, <2>4, <2>5, <3>1 DEF Gap
  <2>7. HoldUpTo(ConciseBitsOf, words, b, g, g)
    <3>1. Prefix(b, g) = Prefix(b, m)
      BY <2>5, <2>6, GapPrefix
    <3>2. HoldUpTo(ConciseBitsOf, words, b, m, g)
      BY <1>3, <1>6, <2>3
    <3> QED
      BY <3>1, <3>2 DEF HoldUpTo
  <2>8. az \in Seq(ConciseWords) /\ HoldUpTo(ConciseBitsOf, az, b, y, y)
    <3>1. y = g + cnt * CP
      BY <1>3, <2>4
    <3> QED
      BY <1>2, <2>6, <2>7, <3>1, ZerosBehind
  <2> HIDE DEF az
  <2>9. active = Append(az, R!Literal({}))
    <3>1. (bit_pos \div CP) - 1 = cnt /\ ~(bit_pos < CP)
      BY <1>3, <1>4, <1>8, <2>1, <2>2
    <3> QED
      BY <3>1 DEF az
  <2>10. R!Front(active) = az /\ R!Last(active).ones = {}
    <3>1. {} \in SUBSET (0 .. CP - 1)
      OBVIOUS
    <3>2. PICK l \in ConciseWords : l = R!Literal({}) /\ l.ones = {}
      BY <3>1, ConciseWordBits
    <3> HIDE DEF active
    <3>3. Len(active) = Len(az) + 1 /\ active[Len(az) + 1] = l /\ Len(az) \in Nat
          /\ active \in Seq(ConciseWords) /\ \A j \in 1 .. Len(az) : active[j] = az[j]
      BY <2>8, <2>9, <3>2, AppendProperties
    <3>4. R!Last(active) = l
      BY <3>3 DEF R!Last
    <3>5. PICK n \in Nat : n = Len(az)
      BY <3>3
    <3>6. SubSeq(active, 1, n) = az
      <4>1. Len(active) = n + 1 /\ \A j \in 1 .. n : active[j] = az[j]
        BY <3>3, <3>5
      <4>2. n + 1 - 1 = n /\ 1 \in 1 .. n + 1 /\ n \in 1 - 1 .. n + 1
        OBVIOUS
      <4>3. /\ SubSeq(active, 1, n) \in Seq(ConciseWords) /\ Len(SubSeq(active, 1, n)) = n
            /\ \A j \in 1 .. n : SubSeq(active, 1, n)[j] = active[j]
        <5>1. SubSeq(active, 1, n) = [j \in 1 .. n |-> active[j]]
          BY <3>3, <4>1
        <5>2. \A j \in 1 .. n : active[j] \in ConciseWords
          BY <3>3, <4>1
        <5> QED
          BY <5>1, <5>2
      <4>4. PICK u \in Seq(ConciseWords) : u = SubSeq(active, 1, n)
        BY <4>3
      <4>5. Len(u) = Len(az) /\ \A j \in 1 .. Len(u) : u[j] = az[j]
        BY <3>5, <4>1, <4>3, <4>4
      <4>6. u = az
        BY <2>8, <4>5, SeqEqual
      <4> QED
        BY <4>4, <4>6
    <3>7. Len(active) - 1 = n
      BY <3>3, <3>5
    <3>8. R!Front(active) = az
      BY <3>6, <3>7 DEF R!Front
    <3> QED
      BY <3>2, <3>4, <3>8
  <2>11. ones = {r}
    <3> HIDE DEF active
    <3> QED
      BY <1>3, <1>4, <2>1, <2>10
  <2>12. ones = BitsFrom(CP, b, y, i + 1)
    <3>1. BitsFrom(CP, b, y, y) = {}
      <4>1. \A j \in 0 .. CP - 1 : y + j \notin Prefix(b, y)
        BY ConciseSizes DEF Prefix
      <4> QED
        BY <4>1 DEF BitsFrom
    <3>2. i < y + CP /\ r = i - y
      BY <1>3, <2>1, <2>4
    <3>3. BitsFrom(CP, b, y, i + 1) = BitsFrom(CP, b, y, y) \cup {r}
      BY <2>5, <2>6, <3>2, OneMoreBit
    <3> HIDE DEF ones
    <3> QED
      BY <2>11, <3>1, <3>3
  <2>13. BlockBegin(y) /\ y <= i /\ i < y + CP
    <3>1. PICK h \in Nat : h = k + c
      OBVIOUS
    <3>2. y = h * CP
      BY <1>3, <2>4, <3>1
    <3>3. i < y + CP
      BY <1>3, <2>1, <2>4
    <3> QED
      BY <2>5, <3>2, <3>3 DEF BlockBegin
  <2> HIDE DEF ones, active
  <2>14. KeptTo(b, Concise!compress(Append(az, R!Literal(ones))), i)
    BY <2>8, <2>12, <2>13, Compressed
  <2> QED
    BY <2>10, <2>14
<1> HIDE DEF new
<1>9. KeptTo(b, new, i) /\ new \in Seq(ConciseWords)
  <2>1. KeptTo(b, new, i)
    BY <1>7, <1>8
  <2> QED
    BY <2>1 DEF KeptTo
<1> QED
  BY <1>5, <1>9

\* The first 1-bit, and the 0-bits before it
LEMMA ConciseFirst ==
  ASSUME NEW b, NEW i \in Nat, Gap(b, 0, i), i \in OnesOf(b)
  PROVE  LET e == Concise!append(Concise!Empty, i)
         IN  KeptTo(b, e.words, i) /\ e.max = i /\ e \in [words : Seq(ConciseWords), max : Nat]
<1>1. PICK p \in Nat : p = CP /\ p > 0
  BY ConciseSizes
<1>2. PICK c \in Nat, r \in Nat : c = i \div p /\ r = i % p /\ r < p /\ i = p * c + r
  BY <1>1, BlockOf
<1>3. PICK y \in Nat : y = c * p /\ i = y + r
  <2>1. c * p \in Nat /\ c * p = p * c
    BY <1>1
  <2> QED
    BY <1>2, <2>1
<1> DEFINE zeros == <<>> \o Concise!Zeros(c)
<1>4. zeros \in Seq(ConciseWords) /\ HoldUpTo(ConciseBitsOf, zeros, b, y, y)
  <2>1. <<>> \in Seq(ConciseWords) /\ HoldUpTo(ConciseBitsOf, <<>>, b, 0, 0)
    <3>1. ViewBy(ConciseBitsOf, <<>>) = <<>>
      BY DEF ViewBy
    <3> QED
      BY <3>1, SpellsNothing DEF HoldUpTo
  <2>2. y = 0 + c * CP /\ 0 \in Nat
    BY <1>1, <1>3
  <2>3. Gap(b, 0, y)
    <3>1. OnesOf(b) \subseteq Int
      BY WordCodecsAssumption DEF OnesOf, R!Pos
    <3> QED
      BY <1>3, <3>1 DEF Gap
  <2> QED
    BY <2>1, <2>2, <2>3, AddZeros
<1>5. {r} = BitsFrom(CP, b, y, i + 1)
  <2>1. BitsFrom(CP, b, y, y) = {}
    <3>1. \A j \in 0 .. CP - 1 : y + j \notin Prefix(b, y)
      BY ConciseSizes DEF Prefix
    <3> QED
      BY <3>1 DEF BitsFrom
  <2>2. i < y + CP /\ r = i - y /\ y <= i
    BY <1>1, <1>2, <1>3
  <2>3. Gap(b, y, i)
    <3>1. OnesOf(b) \subseteq Int
      BY WordCodecsAssumption DEF OnesOf, R!Pos
    <3> QED
      BY <3>1 DEF Gap
  <2>4. BitsFrom(CP, b, y, i + 1) = BitsFrom(CP, b, y, y) \cup {r}
    BY <2>2, <2>3, OneMoreBit
  <2> QED
    BY <2>1, <2>4
<1>6. BlockBegin(y) /\ y <= i /\ i < y + CP
  BY <1>1, <1>2, <1>3 DEF BlockBegin
<1> HIDE DEF zeros
<1>7. PICK words : words = Append(zeros, R!Literal({r}))
  OBVIOUS
<1>8. KeptTo(b, words, i)
  BY <1>4, <1>5, <1>6, <1>7, LiteralKept
<1>9. Concise!append(Concise!Empty, i) = [words |-> words, max |-> i]
  <2>1. zeros = Concise!Zeros(c)
    BY DEF zeros, Concise!Zeros
  <2>2. Concise!Empty = [words |-> <<>>, max |-> 0]
    BY DEF Concise!Empty
  <2>3. Concise!append(Concise!Empty, i) =
          [words |-> Append(Concise!Zeros(i \div CP), R!Literal({i % CP})), max |-> i]
    BY <2>2, ConciseHelpers DEF Concise!append, CP
  <2> QED
    BY <1>1, <1>2, <1>7, <2>1, <2>3
<1>10. words \in Seq(ConciseWords)
  BY <1>8 DEF KeptTo
<1> QED
  BY <1>8, <1>9, <1>10

\* The 1-bits of the bitmap in their order
OnesAt(b, o, n) ==
  /\ n \in Nat /\ o \in [1 .. n -> OnesOf(b)]
  /\ n = 0 => OnesOf(b) = {}
  /\ n > 0 => Gap(b, 0, o[1]) /\ \A u \in OnesOf(b) : ~(o[n] < u)
  /\ \A k \in 1 .. n - 1 : o[k] < o[k + 1] /\ Gap(b, o[k] + 1, o[k + 1])

\* The 1-bits of a bitmap in their order: no 1-bit lies between two of them, or
\* before the first, or behind the last.
LEMMA OnesInOrder ==
  ASSUME NEW b
  PROVE  \E n : OnesAt(b, R!Ordered(OnesOf(b)), n) /\ n = Cardinality(OnesOf(b))
<1> DEFINE S == OnesOf(b)
           n == Cardinality(S)
           o == R!Ordered(S)
<1>1. S \subseteq Nat /\ IsFiniteSet(S)
  <2>1. N \in Nat /\ S \subseteq 0 .. N - 1
    BY WordCodecsAssumption DEF OnesOf, R!Pos
  <2>2. IsFiniteSet(0 .. N - 1)
    BY <2>1, FS_Interval
  <2>3. 0 .. N - 1 \subseteq Nat
    BY <2>1
  <2> HIDE DEF S
  <2>4. S \subseteq Nat
    BY <2>1, <2>3
  <2>5. IsFiniteSet(S)
    BY <2>1, <2>2, FS_Subset
  <2> QED
    BY <2>4, <2>5
<1> HIDE DEF S
<1>2. n \in Nat /\ o \in [1 .. n -> S] /\ \A k \in 1 .. n : Rank(S, o[k]) = k - 1
  BY <1>1, OrderedIs
<1>3. n = 0 => S = {}
  BY <1>1, FS_EmptySet
<1> HIDE DEF o
<1>4. ASSUME n > 0 PROVE Gap(b, 0, o[1]) /\ \A u \in S : ~(o[n] < u)
  <2>1. 1 \in 1 .. n /\ n \in 1 .. n
    BY <1>2, <1>4
  <2>2. o[1] \in S /\ o[n] \in S /\ Rank(S, o[1]) = 0 /\ Rank(S, o[n]) = n - 1
    BY <1>2, <2>1
  <2>3. ASSUME NEW u \in S, u < o[1] PROVE FALSE
    <3>1. Rank(S, u) < Rank(S, o[1]) /\ Rank(S, u) \in Nat
      BY <1>1, <2>2, <2>3, RankOrder, RankType
    <3> QED
      BY <2>2, <3>1
  <2>4. ASSUME NEW u \in S, o[n] < u PROVE FALSE
    <3>1. Rank(S, o[n]) < Rank(S, u) /\ Rank(S, u) \in Nat /\ Rank(S, u) < n
      BY <1>1, <2>2, <2>4, RankOrder, RankType, RankBelow
    <3> QED
      BY <1>2, <2>2, <3>1
  <2> QED
    BY <2>3, <2>4 DEF Gap, S
<1>5. ASSUME NEW k \in 1 .. n - 1 PROVE o[k] < o[k + 1] /\ Gap(b, o[k] + 1, o[k + 1])
  <2>1. k \in 1 .. n /\ k + 1 \in 1 .. n
    BY <1>2
  <2>2. /\ o[k] \in S /\ o[k] \in Nat /\ Rank(S, o[k]) = k - 1
        /\ o[k + 1] \in S /\ o[k + 1] \in Nat /\ Rank(S, o[k + 1]) = k
    <3>1. PICK j \in 1 .. n : j = k + 1 /\ j - 1 = k
      BY <1>2, <2>1
    <3>2. o[j] \in S /\ Rank(S, o[j]) = k
      BY <1>2, <3>1
    <3>3. o[k] \in S /\ Rank(S, o[k]) = k - 1
      BY <1>2, <2>1
    <3> QED
      BY <1>1, <3>1, <3>2, <3>3
  <2>3. o[k] < o[k + 1]
    <3> SUFFICES ASSUME o[k + 1] <= o[k] PROVE FALSE
      BY <2>2
    <3>1. Rank(S, o[k + 1]) <= Rank(S, o[k])
      BY <1>1, <2>2, RankGrows
    <3> QED
      BY <1>2, <2>2, <3>1
  <2>4. ASSUME NEW u \in S, o[k] + 1 <= u, u < o[k + 1] PROVE FALSE
    <3>1. u \in Nat /\ o[k] < u
      BY <1>1, <2>2, <2>4
    <3>2. Rank(S, o[k]) < Rank(S, u) /\ Rank(S, u) < Rank(S, o[k + 1]) /\ Rank(S, u) \in Nat
      BY <1>1, <2>2, <2>4, <3>1, RankOrder, RankType
    <3> QED
      BY <1>2, <2>2, <3>2
  <2> QED
    BY <2>3, <2>4 DEF Gap, S
<1>6. OnesAt(b, o, n)
  BY <1>2, <1>3, <1>4, <1>5 DEF OnesAt, S
<1> QED
  BY <1>6 DEF o, S

\* encode: all 1-bits, one after the other
LEMMA ConciseEncodes ==
  ASSUME NEW b \in [R!Pos -> BOOLEAN]
  PROVE  LET words == Concise!encode(b)
         IN  \/ words = <<>> /\ OnesOf(b) = {}
             \/ \E x \in OnesOf(b) : KeptTo(b, words, x) /\ \A u \in OnesOf(b) : ~(x < u)
<1> DEFINE o == Concise!Ordered({i \in Concise!Pos : b[i]})
           Y == [words : Seq(ConciseWords), max : Nat]
<1>0. o = R!Ordered(OnesOf(b))
  <2>1. {i \in Concise!Pos : b[i]} = OnesOf(b)
    BY DEF OnesOf, Concise!Pos, R!Pos
  <2>2. \A S : Concise!Ordered(S) = R!Ordered(S)
    BY DEF Concise!Ordered, R!Ordered, Concise!Cardinality, R!Cardinality
  <2> QED
    BY <2>1, <2>2
<1> HIDE DEF o
<1>1. PICK n : OnesAt(b, o, n)
  BY <1>0, OnesInOrder
<1>l. DOMAIN o = 1 .. n
  BY <1>1 DEF OnesAt
<1>2. /\ n \in Nat /\ o \in [1 .. n -> OnesOf(b)] /\ Len(o) = n
      /\ n = 0 => OnesOf(b) = {}
      /\ n > 0 => Gap(b, 0, o[1]) /\ \A u \in OnesOf(b) : ~(o[n] < u)
      /\ \A k \in 1 .. n - 1 : o[k] < o[k + 1] /\ Gap(b, o[k] + 1, o[k + 1])
  BY <1>1, <1>l DEF OnesAt
<1>o. \A k \in 1 .. n : o[k] \in Nat /\ o[k] \in OnesOf(b)
  BY <1>2, WordCodecsAssumption DEF OnesOf, R!Pos
<1>z. PICK z : z = Concise!Empty
  OBVIOUS
<1> DEFINE X == {z} \cup Y
           K(k) == {e \in X : IF k = 0 THEN e = z ELSE KeptTo(b, e.words, o[k]) /\ e.max = o[k]}
           Body(f) == [k \in 0 .. n |-> IF k = 0 THEN z ELSE Concise!append(f[k - 1], o[k])]
           g == CHOOSE f : f = Body(f)
           step == [k \in 0 .. n |->
                      [e \in X |-> IF k # 0 /\ e \in K(k - 1) THEN Concise!append(e, o[k]) ELSE e]]
<1>3. Concise!encode(b) = g[n].words
  <2> DEFINE h == CHOOSE f : f = [k \in 0 .. Len(o) |->
                                    IF k = 0 THEN Concise!Empty ELSE Concise!append(f[k - 1], o[k])]
  <2>1. Concise!encode(b) = h[Len(o)].words
    BY DEF Concise!encode, o
  <2>2. h = g
    BY <1>2, <1>z
  <2> HIDE DEF h, g
  <2> QED
    BY <1>2, <2>1, <2>2
<1>5. z \in K(0)
  OBVIOUS
<1>6. ASSUME NEW k \in 1 .. n, NEW e \in K(k - 1)
      PROVE  Concise!append(e, o[k]) \in K(k)
  <2>1. k # 0 /\ n > 0
    BY <1>2
  <2>2. PICK i \in Nat : i = o[k] /\ i \in OnesOf(b)
    BY <1>o
  <2>3. PICK a : a = Concise!append(e, i)
    OBVIOUS
  <2>4. KeptTo(b, a.words, i) /\ a.max = i /\ a \in Y
    <3>1. CASE k = 1
      <4>1. e = Concise!Empty
        BY <1>z, <3>1
      <4>2. Gap(b, 0, i)
        BY <1>2, <2>1, <2>2, <3>1
      <4> QED
        BY <2>2, <2>3, <4>1, <4>2, ConciseFirst
    <3>2. CASE k # 1
      <4>1. PICK j \in 1 .. n - 1 : j = k - 1 /\ k = j + 1 /\ j \in 1 .. n
        BY <1>2, <3>2
      <4>2. PICK x \in Nat : x = o[j]
        BY <1>o, <4>1
      <4>3. x < i /\ Gap(b, x + 1, i)
        BY <1>2, <2>2, <4>1, <4>2
      <4>4. KeptTo(b, e.words, x) /\ e.max = x /\ j # 0
        BY <4>1, <4>2
      <4>5. e \in Y
        <5>1. Concise!Empty.words = <<>>
          BY DEF Concise!Empty
        <5>2. e # z
          BY <1>z, <4>4, <5>1 DEF KeptTo
        <5> QED
          BY <5>2
      <4>6. PICK words : words = e.words
        OBVIOUS
      <4>7. e = [words |-> words, max |-> x]
        BY <4>4, <4>5, <4>6
      <4>8. KeptTo(b, words, x)
        BY <4>4, <4>6
      <4>9. a = Concise!append([words |-> words, max |-> x], i)
        BY <2>3, <4>7
      <4> HIDE DEF K, Y, X
      <4>10. LET c == Concise!append([words |-> words, max |-> x], i)
             IN  KeptTo(b, c.words, i) /\ c.max = i /\ c \in [words : Seq(ConciseWords), max : Nat]
        BY <2>2, <4>3, <4>8, ConciseAppend
      <4> QED
        BY <4>9, <4>10 DEF Y
    <3> QED
      BY <3>1, <3>2
  <2> HIDE DEF Y
  <2> QED
    BY <2>1, <2>2, <2>3, <2>4
<1> HIDE DEF K
<1>7. \A m : K(m) \subseteq X
  BY DEF K
<1> HIDE DEF X
<1>8. step \in Steps(0, n, X)
  <2>1. ASSUME NEW k \in 0 .. n, NEW e \in X
        PROVE  (IF k # 0 /\ e \in K(k - 1) THEN Concise!append(e, o[k]) ELSE e) \in X
    <3>1. CASE k # 0 /\ e \in K(k - 1)
      <4>1. k \in 1 .. n
        BY <1>2, <3>1
      <4>2. Concise!append(e, o[k]) \in K(k)
        BY <1>6, <3>1, <4>1
      <4> QED
        BY <1>7, <3>1, <4>2
    <3>2. CASE ~(k # 0 /\ e \in K(k - 1))
      BY <3>2
    <3> QED
      BY <3>1, <3>2
  <2> QED
    BY <2>1 DEF Steps
<1>9. PICK f \in [0 .. n -> X] : FollowsUp(f, 0, n, z, step)
  <2>1. 0 \in Nat /\ n \in Nat /\ 0 <= n /\ z \in X
    BY <1>2, <1>5, <1>7
  <2> HIDE DEF step
  <2> QED
    BY <1>8, <2>1, FunctionUp
<1>10. \A k \in 0 .. n : f[k] = IF k = 0 THEN z ELSE step[k][f[k - 1]]
  BY <1>9 DEF FollowsUp
<1>11. \A k \in 1 .. n : f[k - 1] \in K(k - 1) =>
         f[k] = Concise!append(f[k - 1], o[k])
  <2> TAKE k \in 1 .. n
  <2> HAVE f[k - 1] \in K(k - 1)
  <2>1. k \in 0 .. n /\ k # 0 /\ k - 1 \in 0 .. n
    BY <1>2
  <2>2. f[k - 1] \in X
    BY <1>9, <2>1
  <2>3. step[k][f[k - 1]] = Concise!append(f[k - 1], o[k])
    BY <2>1, <2>2
  <2> QED
    BY <1>10, <2>1, <2>3
<1> HIDE DEF step
<1> DEFINE T == {k \in 0 .. n : f[k] \in K(k)}
<1>12. 0 .. n \subseteq T
  <2>1. 0 \in T
    BY <1>2, <1>5, <1>10
  <2>2. \A k \in 0 .. n - 1 : k \in T => k + 1 \in T
    <3> TAKE k \in 0 .. n - 1
    <3> HAVE k \in T
    <3>1. k + 1 \in 1 .. n /\ k + 1 \in 0 .. n /\ (k + 1) - 1 = k
      BY <1>2
    <3>2. f[k] \in K(k)
      OBVIOUS
    <3>3. f[k + 1] = Concise!append(f[k], o[k + 1])
      BY <1>11, <3>1, <3>2
    <3>4. Concise!append(f[k], o[k + 1]) \in K(k + 1)
      BY <1>6, <3>1, <3>2
    <3> QED
      BY <3>1, <3>3, <3>4
  <2>3. 0 \in Nat /\ n \in Nat
    BY <1>2
  <2> HIDE DEF T
  <2> QED
    BY <2>1, <2>2, <2>3, ReachedUp
<1>13. \A k \in 0 .. n : f[k] \in K(k)
  BY <1>12
<1>14. f = Body(f)
  <2>1. \A k \in 0 .. n : f[k] = Body(f)[k]
    <3> TAKE k \in 0 .. n
    <3>1. CASE k = 0
      BY <1>10, <3>1
    <3>2. CASE k # 0
      <4>1. k \in 1 .. n /\ k - 1 \in 0 .. n
        BY <1>2, <3>2
      <4>2. f[k] = Concise!append(f[k - 1], o[k])
        BY <1>11, <1>13, <4>1
      <4> QED
        BY <3>2, <4>2
    <3> QED
      BY <3>1, <3>2
  <2> QED
    BY <1>9, <2>1
<1>15. g = Body(g)
  BY <1>14
<1> HIDE DEF g
<1>16. g[0] = z /\ \A k \in 1 .. n : g[k] = Concise!append(g[k - 1], o[k])
  <2> DEFINE h == Body(g)
  <2>1. h[0] = z /\ \A k \in 1 .. n : h[k] = Concise!append(g[k - 1], o[k])
    BY <1>2
  <2>2. g = h
    BY <1>15
  <2> HIDE DEF h
  <2> QED
    BY <2>1, <2>2
<1> DEFINE V == {k \in 0 .. n : g[k] \in K(k)}
<1>17. 0 .. n \subseteq V
  <2>1. 0 \in V
    BY <1>2, <1>5, <1>16
  <2>2. \A k \in 0 .. n - 1 : k \in V => k + 1 \in V
    <3> TAKE k \in 0 .. n - 1
    <3> HAVE k \in V
    <3>1. k + 1 \in 1 .. n /\ k + 1 \in 0 .. n /\ (k + 1) - 1 = k
      BY <1>2
    <3>2. g[k] \in K(k)
      OBVIOUS
    <3>3. g[k + 1] = Concise!append(g[k], o[k + 1])
      BY <1>16, <3>1
    <3>4. Concise!append(g[k], o[k + 1]) \in K(k + 1)
      BY <1>6, <3>1, <3>2
    <3> QED
      BY <3>1, <3>3, <3>4
  <2>3. 0 \in Nat /\ n \in Nat
    BY <1>2
  <2> HIDE DEF V
  <2> QED
    BY <2>1, <2>2, <2>3, ReachedUp
<1>18. g[n] \in K(n)
  <2>1. n \in 0 .. n
    BY <1>2
  <2> QED
    BY <1>17, <2>1
<1>19. CASE n = 0
  <2>1. g[n].words = <<>> /\ OnesOf(b) = {}
    BY <1>2, <1>16, <1>19, <1>z DEF Concise!Empty
  <2> QED
    BY <1>3, <2>1
<1>20. CASE n # 0
  <2>1. PICK words : words = g[n].words
    OBVIOUS
  <2>2. PICK x : x = o[n]
    OBVIOUS
  <2>3. n \in 1 .. n /\ n > 0
    BY <1>2, <1>20
  <2>4. x \in OnesOf(b) /\ KeptTo(b, words, x) /\ \A u \in OnesOf(b) : ~(x < u)
    BY <1>2, <1>o, <1>18, <1>20, <2>1, <2>2, <2>3 DEF K
  <2> QED
    BY <1>3, <2>1, <2>4
<1> QED
  BY <1>19, <1>20

\* concise keeps all bits, in words that are what they should be.
LEMMA ConciseSound ==
  ASSUME NEW b \in [R!Pos -> BOOLEAN]
  PROVE  Sound("concise", b)
<1> DEFINE words == Concise!encode(b)
           v == ViewBy(ConciseBitsOf, words)
           S == OnesOf(b)
<1>1. Encode("concise", b) = words /\ "concise" \notin Counting
  BY DEF Encode, Counting
<1>2. \/ words = <<>> /\ S = {}
      \/ \E x \in S : KeptTo(b, words, x) /\ \A u \in S : ~(x < u)
  BY ConciseEncodes
<1> HIDE DEF words
<1>3. words \in Seq(ConciseWords)
  <2>1. <<>> \in Seq(ConciseWords)
    OBVIOUS
  <2> QED
    BY <1>2, <2>1 DEF KeptTo
<1>4. \A k \in DOMAIN words : words[k] \in ConciseWords
  BY <1>3
<1>5. WordsOK("concise", words)
  <2>1. \A w \in ConciseWords : Concise!WordOK(w)
    <3> TAKE w \in ConciseWords
    <3>1. /\ w.fill \in BOOLEAN
          /\ w.fill => w.cnt \in Nat \ {0} /\ w.dirty \in SUBSET (0 .. CP - 1)
          /\ ~w.fill => w.ones \in SUBSET (0 .. CP - 1)
      BY ConciseKind
    <3>2. w.fill => w.cnt > 0
      BY <3>1
    <3> QED
      BY <3>1, <3>2 DEF Concise!WordOK, Concise!Block, CP
  <2> QED
    BY <1>4, <2>1 DEF WordsOK
<1>6. View("concise", words) = v
  <2>1. \A w \in ConciseWords :
          ConciseBitsOf[w] =
            [size |-> Concise!Size(w),
             ones |-> IF ~w.fill THEN w.ones
                      ELSE IF w.val THEN (0 .. Concise!Size(w) - 1) \ w.dirty ELSE w.dirty]
    BY DEF ConciseBitsOf, DirtyOnce
  <2>2. View("concise", words) = Concise!View(words)
    BY DEF View
  <2> QED
    BY <1>4, <2>1, <2>2 DEF Concise!View, ViewBy
<1>7. S \subseteq 0 .. N - 1 /\ N \in Nat
  BY WordCodecsAssumption DEF OnesOf, R!Pos
<1>8. \E at : Reads(v, at, S)
  <2>1. CASE words = <<>> /\ S = {}
    <3>1. v = <<>>
      BY <2>1 DEF ViewBy
    <3> HIDE DEF v, S
    <3>2. Spells(v, S, 0)
      BY <3>1, SpellsNothing
    <3> QED
      BY <2>1, <3>2 DEF Spells, Reads
  <2>2. ASSUME NEW x \in S, KeptTo(b, words, x), \A u \in S : ~(x < u)
        PROVE  \E at : Reads(v, at, S)
    <3>1. PICK q \in Nat : x < q + CP /\ HoldUpTo(ConciseBitsOf, words, b, x + 1, q + CP)
      BY <2>2 DEF KeptTo
    <3>2. Prefix(b, x + 1) = S
      <4>1. \A u \in S : u < x + 1
        BY <1>7, <2>2
      <4> QED
        BY <4>1 DEF Prefix
    <3>3. PICK m \in Nat : m = q + CP
      BY ConciseSizes
    <3>4. Spells(v, S, m)
      BY <3>1, <3>2, <3>3 DEF HoldUpTo
    <3>5. \A u \in S : u < m
      BY <1>7, <2>2, <3>1, <3>3
    <3> HIDE DEF v, S
    <3> QED
      BY <1>7, <3>4, <3>5 DEF Spells, Reads
  <2> QED
    BY <1>2, <2>1, <2>2
<1> HIDE DEF v, S
<1> QED
  BY <1>1, <1>5, <1>6, <1>8 DEF Sound, S

\* The encoders of xah, uah and concise are sound.
LEMMA EncodersSound ==
  ASSUME Kinds \subseteq Counting \cup {"concise"}
  PROVE  Encoders(Kinds)
<1>1. \A b \in Bitmaps(MaxRuns) : b \in [R!Pos -> BOOLEAN]
  BY DEF Bitmaps
<1>2. \A c \in Kinds : c \in {"xah", "xah_skip"} \/ c \in {"uah", "uah_skip"} \/ c = "concise"
  BY DEF Counting
<1> QED
  BY <1>1, <1>2, XahSound, UahSound, ConciseSound DEF Encoders

-----------------------------------------------------------------------------
\* Whatever the client does, in whatever order: a reader of words that hold the
\* bitmap stays where its invariant says.
THEOREM ReadersKeep ==
  ASSUME Encoders(Kinds)
  PROVE  SpecWords => []ReaderInv
<1>1. InitWords => ReaderInv
  BY ReaderInit
<1>2. ReaderInv /\ [NextWords]_vars => ReaderInv'
  <2> SUFFICES ASSUME ReaderInv, [NextWords]_vars PROVE ReaderInv'
    OBVIOUS
  <2>1. CASE Advance
    BY <2>1, ReaderAdvance
  <2>2. CASE Skip
    BY <2>2, ReaderSkip
  <2>3. CASE UNCHANGED vars
    BY <2>3 DEF vars, ReaderInv, OnItsWay, Standing
  <2> QED
    BY <2>1, <2>2, <2>3 DEF NextWords
<1> QED
  BY <1>1, <1>2, PTL DEF SpecWords

\* Readers of words that hold the bitmap find every bit and every run of it,
\* whatever the codec: test(), next() and skip_to() of all iterators over words.
THEOREM ReadersRight ==
  ASSUME Encoders(Kinds)
  PROVE  SpecWords => [](TypeOK /\ WordsHoldBits /\ TestAgrees /\ RunIsNext)
<1>1. ReaderInv => TypeOK /\ WordsHoldBits /\ TestAgrees /\ RunIsNext
  BY ReaderTypes, ReaderHolds, ReaderTests, ReaderNext
<1>2. SpecWords => []ReaderInv
  BY ReadersKeep
<1> QED
  BY <1>1, <1>2, PTL

\* The words of xah, uah and concise never count beyond their bits and have no
\* bit outside their payload, at any size of a word and of the bitmap.
THEOREM WordsWithinBits ==
  ASSUME Kinds \subseteq Counting \cup {"concise"}
  PROVE  SpecWords => []TypeOK
<1>1. Encoders(Kinds)
  BY EncodersSound
<1>2. ReaderInv => TypeOK
  BY <1>1, ReaderTypes
<1>3. SpecWords => []ReaderInv
  BY <1>1, ReadersKeep
<1> QED
  BY <1>2, <1>3, PTL

\* append_run of xah and uah and append of concise lose no bit and move none,
\* whatever runs follow each other.
THEOREM NoBitLost ==
  ASSUME Kinds \subseteq Counting \cup {"concise"}
  PROVE  SpecWords => []WordsHoldBits
<1>1. Encoders(Kinds)
  BY EncodersSound
<1>2. ReaderInv => WordsHoldBits
  BY <1>1, ReaderHolds
<1>3. SpecWords => []ReaderInv
  BY <1>1, ReadersKeep
<1> QED
  BY <1>2, <1>3, PTL

\* test() finds every bit, from the indexed word on where there is an index, but
\* for the blocks in which concise repeats a dirty bit.
THEOREM TestRightEverywhere ==
  ASSUME Kinds \subseteq Counting \cup {"concise"}
  PROVE  SpecWords => []TestAgrees
<1>1. Encoders(Kinds)
  BY EncodersSound
<1>2. ReaderInv => TestAgrees
  BY <1>1, ReaderTests
<1>3. SpecWords => []ReaderInv
  BY <1>1, ReadersKeep
<1> QED
  BY <1>2, <1>3, PTL

\* The iterators lose no 1-run and give none twice, in any order of next() and
\* skip_to().
THEOREM NoRunLost ==
  ASSUME Kinds \subseteq Counting \cup {"concise"}
  PROVE  SpecWords => []RunIsNext
<1>1. Encoders(Kinds)
  BY EncodersSound
<1>2. ReaderInv => RunIsNext
  BY ReaderNext
<1>3. SpecWords => []ReaderInv
  BY <1>1, ReadersKeep
<1> QED
  BY <1>2, <1>3, PTL
=============================================================================
