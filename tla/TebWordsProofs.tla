--------------------------- MODULE TebWordsProofs ---------------------------
(***************************************************************************)
(* The word-wise shifts of teb_flat keep every bit in its order, and the   *)
(* deltas it adds keep the rank table exact, for words, blocks and arrays  *)
(* of every length.                                                        *)
(***************************************************************************)
EXTENDS TebWords, NatLemmas

Place == 0 .. W - 1

\* Words that hold the bits of an array, in order
Holds(ws, a) ==
  /\ ws \in [Index -> Word]
  /\ a \in [Bits -> BOOLEAN]
  /\ \A i \in Index, b \in Place : a[W * i + b] <=> b \in ws[i]

-----------------------------------------------------------------------------
\* Sizes, and the two ways to name a bit
LEMMA WordSizes ==
  /\ W \in Nat /\ W > 1 /\ WordCnt \in Nat /\ WordCnt > 0
  /\ W * WordCnt \in Nat /\ Bits = 0 .. W * WordCnt - 1
<1>1. W \in Nat /\ W > 1 /\ WordCnt \in Nat /\ WordCnt > 0
  BY BitArrayAssumption, TebWordsAssumption
<1>2. \A x, y \in Nat : x * y \in Nat
  OBVIOUS
<1>3. PICK m \in Nat : m = W * WordCnt
  BY <1>1, <1>2
<1>4. Words(m) = WordCnt
  <2>1. W - 1 \in 0 .. W - 1
    BY <1>1
  <2>2. (W * WordCnt + (W - 1)) \div W = WordCnt
    BY <1>1, <2>1, PlaceInBlock
  <2>3. m + W - 1 = W * WordCnt + (W - 1)
    BY <1>1, <1>3
  <2> QED
    BY <2>2, <2>3 DEF Words
<1> QED
  BY <1>1, <1>3, <1>4 DEF Bits, Array

\* Words lie one after the other.
LEMMA WordOrder ==
  ASSUME NEW i \in Index, NEW j \in Index
  PROVE  /\ i \in Nat /\ W * i \in Nat
         /\ i < j => W * i + W <= W * j
         /\ W * (i + 1) = W * i + W
         /\ W * (i - 1) = W * i - W
<1>1. i \in Nat /\ j \in Nat /\ W \in Nat
  BY WordSizes DEF Index
<1>2. i < j => W * i + W <= W * j
  BY <1>1, BlockOrder
<1>3. \A x, y \in Nat : x * y \in Nat /\ x * (y + 1) = x * y + x /\ x * (y - 1) = x * y - x
  OBVIOUS
<1> QED
  BY <1>1, <1>2, <1>3

\* Every bit has its word and its place in it.
LEMMA BitHasPlace ==
  ASSUME NEW k \in Bits
  PROVE  \E i \in Index, b \in Place : k = W * i + b /\ i = k \div W /\ b = k % W
<1>1. /\ W \in Nat /\ W > 0 /\ WordCnt \in Nat /\ k \in Nat /\ k < W * WordCnt
      /\ W * WordCnt \in Nat
  BY WordSizes
<1>2. PICK i \in Nat, b \in Place : k = W * i + b /\ i = k \div W /\ b = k % W /\ W * i \in Nat
  BY <1>1, BlockOf DEF Place
<1>3. i < WordCnt
  <2>1. WordCnt < i => W * WordCnt + W <= W * i
    BY <1>1, <1>2, BlockOrder
  <2> QED
    BY <1>1, <1>2, <2>1 DEF Place
<1> QED
  BY <1>1, <1>2, <1>3 DEF Index

\* Every place of a word is a bit.
LEMMA PlaceIsBit ==
  ASSUME NEW i \in Index, NEW b \in Place
  PROVE  /\ W * i + b \in Bits /\ W * i \in Nat
         /\ (W * i + b) \div W = i /\ (W * i + b) % W = b
<1>1. W \in Nat /\ W > 0 /\ WordCnt \in Nat /\ i \in Nat /\ i < WordCnt /\ b \in 0 .. W - 1
  BY WordSizes DEF Index, Place
<1>2. W * i \in Nat /\ W * i + W <= W * WordCnt
  BY <1>1, BlockOrder
<1>3. W * i + b \in Bits
  BY <1>1, <1>2, WordSizes
<1> QED
  BY <1>1, <1>2, <1>3, PlaceInBlock

-----------------------------------------------------------------------------
\* Shifts of words, bit by bit
LEMMA Shifts ==
  ASSUME NEW s \in Word, NEW k \in Nat
  PROVE  /\ Shl(s, k) \in Word /\ Shr(s, k) \in Word
         /\ \A b \in Place : b \in Shl(s, k) <=> b - k \in s
         /\ \A b \in Place : b \in Shr(s, k) <=> b + k \in s
<1>1. W \in Nat /\ \A b \in s : b \in Int
  BY WordSizes DEF Word
<1>2. ASSUME NEW b \in Place PROVE b \in Shl(s, k) <=> b - k \in s
  <2>1. b \in Int /\ b = (b - k) + k /\ \A c \in s : b = c + k => c = b - k
    BY <1>1 DEF Place
  <2> QED
    BY <2>1 DEF Shl, Place
<1>3. ASSUME NEW b \in Place PROVE b \in Shr(s, k) <=> b + k \in s
  <2>1. b \in Int /\ b = (b + k) - k /\ \A c \in s : b = c - k => c = b + k
    BY <1>1 DEF Place
  <2> QED
    BY <2>1 DEF Shr, Place
<1> QED
  BY <1>2, <1>3 DEF Shl, Shr, Word

\* The bit a number of places before another lies in its word or the one before.
LEMMA BitBefore ==
  ASSUME NEW ws, NEW a, Holds(ws, a), NEW i \in Index, NEW b \in Place,
         NEW cnt \in Nat, cnt < W, W * i + b - cnt >= 0
  PROVE  a[W * i + b - cnt] <=> \/ b - cnt \in ws[i]
                                \/ i - 1 \in Index /\ b - cnt + W \in ws[i - 1]
<1>1. /\ W \in Nat /\ W > 1 /\ b \in Nat /\ b < W /\ i \in Nat /\ W * i \in Nat
      /\ W * (i - 1) = W * i - W
  BY WordSizes, WordOrder DEF Place, Index
<1>2. \A j \in Index : \A c \in ws[j] : c \in Place
  BY DEF Holds, Word, Place
<1>3. CASE b >= cnt
  <2>1. b - cnt \in Place /\ W * i + b - cnt = W * i + (b - cnt)
    BY <1>1, <1>3 DEF Place
  <2>2. b - cnt + W \notin Place
    BY <1>1, <1>3 DEF Place
  <2> QED
    BY <1>2, <2>1, <2>2 DEF Holds
<1>4. CASE b < cnt
  <2>1. i # 0
    BY <1>1, <1>4
  <2>2. i - 1 \in Index
    BY <1>1, <2>1, WordSizes DEF Index
  <2>3. b - cnt + W \in Place /\ W * i + b - cnt = W * (i - 1) + (b - cnt + W)
    BY <1>1, <1>4 DEF Place
  <2>4. b - cnt \notin Place
    BY <1>1, <1>4 DEF Place
  <2> QED
    BY <1>2, <2>2, <2>3, <2>4 DEF Holds
<1> QED
  BY <1>1, <1>3, <1>4

\* The bit a number of places behind another lies in its word or the next.
LEMMA BitBehind ==
  ASSUME NEW ws, NEW a, Holds(ws, a), NEW i \in Index, NEW b \in Place,
         NEW cnt \in Nat, cnt < W
  PROVE  Bit(a, W * i + b + cnt) <=> \/ b + cnt \in ws[i]
                                     \/ i + 1 \in Index /\ b + cnt - W \in ws[i + 1]
<1>1. /\ W \in Nat /\ W > 1 /\ b \in Nat /\ b < W /\ i \in Nat /\ W * i \in Nat
      /\ W * (i + 1) = W * i + W
  BY WordSizes, WordOrder DEF Place, Index
<1>2. \A j \in Index : \A c \in ws[j] : c \in Place
  BY DEF Holds, Word, Place
<1>3. DOMAIN a = Bits
  BY DEF Holds
<1>4. CASE b + cnt < W
  <2>1. b + cnt \in Place /\ W * i + b + cnt = W * i + (b + cnt)
    BY <1>1, <1>4 DEF Place
  <2>2. b + cnt - W \notin Place
    BY <1>1, <1>4 DEF Place
  <2>3. W * i + b + cnt \in Bits
    BY <2>1, PlaceIsBit
  <2> QED
    BY <1>2, <1>3, <2>1, <2>2, <2>3 DEF Holds, Bit
<1>5. CASE ~(b + cnt < W)
  <2>1. b + cnt - W \in Place /\ W * i + b + cnt = W * (i + 1) + (b + cnt - W)
    BY <1>1, <1>5 DEF Place
  <2>2. b + cnt \notin Place
    BY <1>1, <1>5 DEF Place
  <2>3. CASE i + 1 \in Index
    <3>1. W * i + b + cnt \in Bits
      BY <2>1, <2>3, PlaceIsBit
    <3> QED
      BY <1>2, <1>3, <2>1, <2>2, <2>3, <3>1 DEF Holds, Bit
  <2>4. CASE i + 1 \notin Index
    <3>1. i + 1 = WordCnt
      BY <1>1, <2>4, WordSizes DEF Index
    <3>2. W * i + b + cnt \notin Bits
      BY <1>1, <2>1, <3>1, WordSizes DEF Place
    <3> QED
      BY <1>2, <1>3, <2>2, <2>4, <3>2 DEF Bit
  <2> QED
    BY <2>3, <2>4
<1> QED
  BY <1>4, <1>5

-----------------------------------------------------------------------------
\* Setting or clearing a range of bits
LEMMA SetBitsSets ==
  ASSUME NEW ws \in [Index -> Word], NEW begin \in Nat, NEW e \in Nat, NEW val \in BOOLEAN
  PROVE  /\ SetBits(ws, begin, e, val) \in [Index -> Word]
         /\ \A i \in Index, b \in Place :
              b \in SetBits(ws, begin, e, val)[i]
                <=> IF begin <= W * i + b /\ W * i + b < e THEN val ELSE b \in ws[i]
<1>1. ASSUME NEW i \in Index PROVE InWord(i, begin, e) \in Word /\ ws[i] \in Word
  BY DEF InWord, Word
<1>2. SetBits(ws, begin, e, val) \in [Index -> Word]
  BY <1>1 DEF SetBits, Word
<1>3. ASSUME NEW i \in Index, NEW b \in Place
      PROVE  b \in SetBits(ws, begin, e, val)[i]
               <=> IF begin <= W * i + b /\ W * i + b < e THEN val ELSE b \in ws[i]
  <2>1. b \in InWord(i, begin, e) <=> begin <= W * i + b /\ W * i + b < e
    BY DEF InWord, Place
  <2> QED
    BY <2>1 DEF SetBits
<1> QED
  BY <1>2, <1>3

\* The words behind an insertion: each is shifted up, and takes what leaves the
\* one before.
LEMMA MovedUp ==
  ASSUME NEW ws, NEW a, Holds(ws, a), NEW i \in Index, i - 1 \in Index, NEW cnt \in Nat, cnt < W
  PROVE  /\ Shl(ws[i], cnt) \cup Shr(ws[i - 1], W - cnt) \in Word
         /\ \A b \in Place : b \in Shl(ws[i], cnt) \cup Shr(ws[i - 1], W - cnt)
                               <=> a[W * i + b - cnt]
<1>1. W \in Nat /\ W - cnt \in Nat /\ ws[i] \in Word /\ ws[i - 1] \in Word
  BY WordSizes DEF Holds
<1>2. Shl(ws[i], cnt) \in Word /\ Shr(ws[i - 1], W - cnt) \in Word
  BY <1>1, Shifts
<1>3. ASSUME NEW b \in Place
      PROVE  b \in Shl(ws[i], cnt) \cup Shr(ws[i - 1], W - cnt) <=> a[W * i + b - cnt]
  <2>1. b \in Shl(ws[i], cnt) <=> b - cnt \in ws[i]
    BY <1>1, Shifts
  <2>2. b \in Shr(ws[i - 1], W - cnt) <=> b + (W - cnt) \in ws[i - 1]
    BY <1>1, Shifts
  <2>3. b + (W - cnt) = b - cnt + W
    BY <1>1 DEF Place
  <2>4. W * i + b - cnt >= 0
    <3>1. /\ W * (i - 1) \in Nat /\ W * i = W * (i - 1) + W
      BY WordOrder
    <3> QED
      BY <1>1, <3>1 DEF Place
  <2> QED
    BY <2>1, <2>2, <2>3, <2>4, BitBefore
<1> QED
  BY <1>2, <1>3 DEF Word

\* An insertion puts its bits in, and moves what lies behind up, in order.
LEMMA InsertHolds ==
  ASSUME NEW ws, NEW a, Holds(ws, a),
         NEW begin \in Bits, NEW cnt \in 1 .. W - 1, NEW val \in BOOLEAN,
         InsertFaults(a, begin, cnt) = {}
  PROVE  Holds(Inserted(ws, begin, cnt, val), InsertBits(a, begin, cnt, val))
<1> DEFINE new == InsertBits(a, begin, cnt, val)
<1>1. PICK w \in Index, x \in Place : begin = W * w + x /\ w = begin \div W /\ x = begin % W
  BY BitHasPlace
<1>2. /\ W \in Nat /\ W > 1 /\ w \in Nat /\ x \in Nat /\ x < W /\ cnt \in Nat /\ cnt < W
      /\ W * w \in Nat /\ begin \in Nat
  BY <1>1, WordSizes, WordOrder DEF Place
<1>3. /\ ws \in [Index -> Word] /\ a \in [Bits -> BOOLEAN]
  BY DEF Holds
<1>4. x + cnt >= W => w + 1 \in Index
  <2> SUFFICES ASSUME x + cnt >= W PROVE w + 1 \in Index
    OBVIOUS
  <2>1. Capacity(a) = W * WordCnt
    <3>1. DOMAIN a = 0 .. W * WordCnt - 1 /\ W * WordCnt \in Nat
      BY <1>3, WordSizes
    <3> QED
      BY <3>1, FS_Interval DEF Capacity
  <2>2. ~(W * (w + 1) >= Capacity(a))
    <3>1. DOMAIN a # {}
      BY <1>3
    <3> QED
      BY <1>1, <3>1 DEF InsertFaults, FaultIf
  <2>3. w + 1 # WordCnt
    BY <1>2, <2>1, <2>2, WordSizes
  <2> QED
    BY <1>1, <1>2, <2>3, WordSizes DEF Index
<1>5. PICK raw \in [Index -> Word] :
        /\ Inserted(ws, begin, cnt, val) = SetBits(raw, begin, begin + cnt, val)
        /\ \A i \in Index, b \in Place :
             /\ W * i + b < begin => (b \in raw[i] <=> a[W * i + b])
             /\ W * i + b >= begin + cnt => (b \in raw[i] <=> a[W * i + b - cnt])
  <2>1. CASE x + cnt >= W
    <3> DEFINE first == W - x
               second == Shl(Shl(ws[w + 1], first) \cup Shr(ws[w], W - first), cnt - first)
               raw == [i \in Index |->
                         IF i <= w THEN ws[i]
                         ELSE IF i = w + 1
                           THEN Shl(Shl(ws[i], first) \cup Shr(ws[w], W - first), cnt - first)
                         ELSE Shl(ws[i], cnt) \cup Shr(ws[i - 1], W - cnt)]
    <3>1. Inserted(ws, begin, cnt, val) = SetBits(raw, begin, begin + cnt, val)
      BY <1>1, <2>1 DEF Inserted
    <3>2. first \in Nat /\ W - first = x /\ cnt - first \in Nat /\ w + 1 \in Index
      BY <1>2, <1>4, <2>1
    <3>3. second \in Word /\ \A b \in Place : b \in second <=> b - (cnt - first) \in Shl(ws[w + 1], first) \cup Shr(ws[w], x)
      <4>1. Shl(ws[w + 1], first) \in Word /\ Shr(ws[w], x) \in Word
        BY <1>1, <1>2, <1>3, <3>2, Shifts
      <4>2. Shl(ws[w + 1], first) \cup Shr(ws[w], x) \in Word
        BY <4>1 DEF Word
      <4> QED
        BY <3>2, <4>2, Shifts
    <3>4. ASSUME NEW b \in Place, W * (w + 1) + b >= begin + cnt
          PROVE  b \in second <=> a[W * (w + 1) + b - cnt]
      <4>1. W * (w + 1) = W * w + W
        BY <1>1, WordOrder
      <4>2. PICK d \in Place : d = b - (cnt - first)
        <5>1. b - (cnt - first) \in Place
          BY <1>1, <1>2, <3>2, <3>4, <4>1 DEF Place
        <5> QED
          BY <5>1
      <4>3. d \in Shl(ws[w + 1], first) <=> d - first \in ws[w + 1]
        BY <1>3, <3>2, Shifts
      <4>4. d \in Shr(ws[w], x) <=> d + x \in ws[w]
        BY <1>1, <1>2, <1>3, Shifts
      <4>5. d - first = b - cnt /\ d + x = b - cnt + W /\ w = (w + 1) - 1
        BY <1>2, <3>2, <4>2 DEF Place
      <4>6. W * (w + 1) + b - cnt >= 0
        BY <1>1, <1>2, <3>4, <4>1 DEF Place
      <4>7. a[W * (w + 1) + b - cnt] <=> b - cnt \in ws[w + 1] \/ b - cnt + W \in ws[w]
        BY <1>1, <1>2, <3>2, <4>5, <4>6, BitBefore
      <4> QED
        BY <3>3, <4>2, <4>3, <4>4, <4>5, <4>7
    <3>5. ASSUME NEW i \in Index, i > w + 1
          PROVE  /\ Shl(ws[i], cnt) \cup Shr(ws[i - 1], W - cnt) \in Word
                 /\ \A b \in Place : b \in Shl(ws[i], cnt) \cup Shr(ws[i - 1], W - cnt)
                                       <=> a[W * i + b - cnt]
      <4>1. i - 1 \in Index
        BY <1>2, <3>5, WordSizes DEF Index
      <4> QED
        BY <1>2, <4>1, MovedUp
    <3>6. raw \in [Index -> Word]
      <4>1. ASSUME NEW i \in Index PROVE raw[i] \in Word
        <5>1. i <= w \/ i = w + 1 \/ i > w + 1
          BY <1>2, WordSizes DEF Index
        <5> QED
          BY <1>2, <1>3, <3>3, <3>5, <5>1
      <4> QED
        BY <4>1
    <3>7. ASSUME NEW i \in Index, NEW b \in Place
          PROVE  /\ W * i + b < begin => (b \in raw[i] <=> a[W * i + b])
                 /\ W * i + b >= begin + cnt => (b \in raw[i] <=> a[W * i + b - cnt])
      <4>1. CASE i <= w
        <5>1. raw[i] = ws[i]
          BY <4>1
        <5>2. ~(W * i + b >= begin + cnt)
          BY <1>1, <1>2, <2>1, <4>1, WordOrder DEF Place
        <5> QED
          BY <5>1, <5>2 DEF Holds
      <4>2. CASE i = w + 1
        <5>1. raw[i] = second
          BY <1>2, <4>2
        <5>2. ~(W * i + b < begin)
          <6>1. W * i = W * w + W
            BY <1>1, <4>2, WordOrder
          <6> QED
            BY <1>1, <1>2, <6>1 DEF Place
        <5> QED
          BY <3>4, <4>2, <5>1, <5>2
      <4>3. CASE i > w + 1
        <5>1. raw[i] = Shl(ws[i], cnt) \cup Shr(ws[i - 1], W - cnt)
          BY <1>2, <4>3
        <5>2. w < i /\ W * w + W <= W * i /\ W * i \in Nat
          BY <1>1, <1>2, <4>3, WordOrder
        <5>3. ~(W * i + b < begin)
          BY <1>1, <1>2, <5>2 DEF Place
        <5> QED
          BY <3>5, <4>3, <5>1, <5>3
      <4> QED
        BY <1>2, <4>1, <4>2, <4>3, WordSizes DEF Index
    <3> HIDE DEF raw
    <3> QED
      BY <3>1, <3>6, <3>7
  <2>2. CASE ~(x + cnt >= W)
    <3> DEFINE own == Shl(ws[w] \ Ones(x), cnt) \cup (ws[w] \cap Ones(x))
               raw == [i \in Index |->
                         IF i < w THEN ws[i]
                         ELSE IF i = w
                           THEN Shl(ws[w] \ Ones(x), cnt) \cup (ws[w] \cap Ones(x))
                         ELSE Shl(ws[i], cnt) \cup Shr(ws[i - 1], W - cnt)]
    <3>1. Inserted(ws, begin, cnt, val) = SetBits(raw, begin, begin + cnt, val)
      BY <1>1, <2>2 DEF Inserted
    <3>2. ws[w] \in Word /\ ws[w] \ Ones(x) \in Word /\ \A c \in ws[w] : c \in Place
      BY <1>1, <1>3 DEF Word, Place
    <3>3. own \in Word
      <4>1. Shl(ws[w] \ Ones(x), cnt) \in Word
        BY <1>2, <3>2, Shifts
      <4> QED
        BY <3>2, <4>1 DEF Word
    <3>4. ASSUME NEW b \in Place
          PROVE  /\ b < x => (b \in own <=> b \in ws[w])
                 /\ b >= x + cnt => (b \in own <=> b - cnt \in ws[w])
      <4>1. b \in Shl(ws[w] \ Ones(x), cnt) <=> b - cnt \in ws[w] \ Ones(x)
        BY <1>2, <3>2, Shifts
      <4>2. b \in Int /\ b - cnt \in Int
        BY <1>2 DEF Place
      <4>3. b \in Ones(x) <=> b < x
        BY <1>2 DEF Ones, Place
      <4>4. b < x => b - cnt \notin ws[w]  \/ b - cnt \in Ones(x)
        BY <1>2, <3>2, <4>2 DEF Ones, Place
      <4>5. b >= x + cnt => b - cnt \notin Ones(x)
        BY <1>2, <4>2 DEF Ones
      <4>6. b >= x + cnt => ~(b < x)
        BY <1>2, <4>2
      <4> QED
        BY <4>1, <4>3, <4>4, <4>5, <4>6
    <3>5. ASSUME NEW i \in Index, i > w
          PROVE  /\ Shl(ws[i], cnt) \cup Shr(ws[i - 1], W - cnt) \in Word
                 /\ \A b \in Place : b \in Shl(ws[i], cnt) \cup Shr(ws[i - 1], W - cnt)
                                       <=> a[W * i + b - cnt]
      <4>1. i - 1 \in Index
        BY <1>2, <3>5, WordSizes DEF Index
      <4> QED
        BY <1>2, <4>1, MovedUp
    <3>6. raw \in [Index -> Word]
      <4>1. ASSUME NEW i \in Index PROVE raw[i] \in Word
        <5>1. i < w \/ i = w \/ i > w
          BY <1>2, WordSizes DEF Index
        <5> QED
          BY <1>2, <1>3, <3>3, <3>5, <5>1
      <4> QED
        BY <4>1
    <3>7. ASSUME NEW i \in Index, NEW b \in Place
          PROVE  /\ W * i + b < begin => (b \in raw[i] <=> a[W * i + b])
                 /\ W * i + b >= begin + cnt => (b \in raw[i] <=> a[W * i + b - cnt])
      <4>1. CASE i < w
        <5>1. raw[i] = ws[i]
          BY <4>1
        <5>2. ~(W * i + b >= begin + cnt)
          BY <1>1, <1>2, <2>2, <4>1, WordOrder DEF Place
        <5> QED
          BY <5>1, <5>2 DEF Holds
      <4>2. CASE i = w
        <5>1. raw[i] = own
          BY <1>2, <4>2
        <5>2. /\ W * i + b < begin <=> b < x
              /\ W * i + b >= begin + cnt <=> b >= x + cnt
          <6>1. W * i = W * w /\ b \in Int
            BY <4>2 DEF Place
          <6> QED
            BY <1>1, <1>2, <6>1
        <5>3. b \in ws[i] <=> a[W * i + b]
          BY DEF Holds
        <5>4. b >= x + cnt => (b - cnt \in ws[i] <=> a[W * i + b - cnt])
          <6> SUFFICES ASSUME b >= x + cnt PROVE b - cnt \in ws[i] <=> a[W * i + b - cnt]
            OBVIOUS
          <6>1. b - cnt \in Place /\ W * i + b - cnt = W * i + (b - cnt)
            BY <1>1, <1>2, <4>2 DEF Place
          <6> QED
            BY <6>1 DEF Holds
        <5> QED
          BY <3>4, <4>2, <5>1, <5>2, <5>3, <5>4
      <4>3. CASE i > w
        <5>1. raw[i] = Shl(ws[i], cnt) \cup Shr(ws[i - 1], W - cnt)
          BY <1>2, <4>3
        <5>2. w < i /\ W * w + W <= W * i /\ W * i \in Nat
          BY <1>1, <1>2, <4>3, WordOrder
        <5>3. ~(W * i + b < begin)
          BY <1>1, <1>2, <5>2 DEF Place
        <5> QED
          BY <3>5, <4>3, <5>1, <5>3
      <4> QED
        BY <1>2, <4>1, <4>2, <4>3, WordSizes DEF Index
    <3> HIDE DEF raw
    <3> QED
      BY <3>1, <3>6, <3>7
  <2> QED
    BY <2>1, <2>2
<1>6. ASSUME NEW i \in Index, NEW b \in Place
      PROVE  new[W * i + b] <=> b \in Inserted(ws, begin, cnt, val)[i]
  <2>1. begin + cnt \in Nat
    BY <1>2
  <2>2. b \in Inserted(ws, begin, cnt, val)[i]
          <=> IF begin <= W * i + b /\ W * i + b < begin + cnt THEN val ELSE b \in raw[i]
    BY <1>2, <1>5, <2>1, SetBitsSets
  <2>3. PICK k \in Bits : k = W * i + b /\ k \in Int
    BY PlaceIsBit, WordSizes
  <2>4. new[k] = IF k < begin THEN a[k] ELSE IF k < begin + cnt THEN val ELSE a[k - cnt]
    BY <1>3 DEF InsertBits
  <2>5. /\ k < begin => (b \in raw[i] <=> a[k])
        /\ k >= begin + cnt => (b \in raw[i] <=> a[k - cnt])
    <3>1. /\ W * i + b < begin => (b \in raw[i] <=> a[W * i + b])
          /\ W * i + b >= begin + cnt => (b \in raw[i] <=> a[W * i + b - cnt])
      BY <1>5
    <3>2. k - cnt = W * i + b - cnt
      BY <1>2, <2>3, WordOrder DEF Place
    <3> QED
      BY <2>3, <3>1, <3>2
  <2>6. new[k] <=> b \in Inserted(ws, begin, cnt, val)[i]
    <3> HIDE DEF new
    <3> QED
      BY <1>2, <2>2, <2>3, <2>4, <2>5
  <2> QED
    BY <2>3, <2>6
<1>7. Inserted(ws, begin, cnt, val) \in [Index -> Word]
  BY <1>2, <1>5, SetBitsSets
<1>8. new \in [Bits -> BOOLEAN]
  <2>1. ASSUME NEW k \in Bits PROVE new[k] \in BOOLEAN
    <3>1. PICK i \in Index, b \in Place : k = W * i + b
      BY BitHasPlace
    <3>2. k >= begin + cnt => k - cnt \in Bits
      BY <1>2, WordSizes
    <3> QED
      BY <1>2, <1>3, <3>2, WordSizes DEF InsertBits
  <2> QED
    BY <1>3, <2>1 DEF InsertBits
<1> QED
  BY <1>6, <1>7, <1>8 DEF Holds

-----------------------------------------------------------------------------
\* The low bits of the next word become the high bits of a word.
LEMMA Imports ==
  ASSUME NEW s \in Word, NEW k \in Nat, k <= W
  PROVE  /\ Imported(s, k) \in Word
         /\ \A b \in Place : b \in Imported(s, k) <=> b + k - W \in s
<1>1. W \in Nat /\ W - k \in Nat /\ s \cap Ones(k + 1) \in Word
  <2>1. s \cap Ones(k + 1) \in Word
    BY DEF Word
  <2> QED
    BY <2>1, WordSizes
<1>2. \A b \in Place : b - (W - k) = b + k - W /\ (b + k - W \in s => b + k - W \in Ones(k + 1))
  BY <1>1 DEF Place, Ones, Word
<1> QED
  BY <1>1, <1>2, Shifts DEF Imported

\* A removal takes its bits out, and moves what lies behind down, in order.
LEMMA RemoveHolds ==
  ASSUME NEW ws, NEW a, Holds(ws, a),
         NEW begin \in Bits, NEW cnt \in 1 .. W - 1, begin + cnt <= W * WordCnt
  PROVE  Holds(Removed(ws, begin, cnt), RemoveBits(a, begin, cnt))
<1> DEFINE new == RemoveBits(a, begin, cnt)
           cleared == SetBits(ws, begin, begin + cnt, FALSE)
           Filled(i, s) == IF i + 1 \in Index THEN s \cup Imported(cleared[i + 1], cnt) ELSE s
<1>1. PICK w \in Index, x \in Place : begin = W * w + x /\ w = begin \div W /\ x = begin % W
  BY BitHasPlace
<1>2. /\ W \in Nat /\ W > 1 /\ w \in Nat /\ x \in Nat /\ x < W /\ cnt \in Nat /\ cnt < W /\ cnt > 0
      /\ W * w \in Nat /\ begin \in Nat /\ begin + cnt \in Nat
  <2>1. W \in Nat /\ W > 1 /\ w \in Nat /\ W * w \in Nat
    BY WordSizes, WordOrder
  <2>2. begin \in Nat
    BY WordSizes
  <2> QED
    BY <2>1, <2>2 DEF Place
<1>3. /\ ws \in [Index -> Word] /\ a \in [Bits -> BOOLEAN] /\ cleared \in [Index -> Word]
  BY <1>2, SetBitsSets DEF Holds
<1>4. ASSUME NEW i \in Index, NEW b \in Place
      PROVE  /\ W * i + b < begin => (b \in cleared[i] <=> b \in ws[i])
             /\ begin <= W * i + b /\ W * i + b < begin + cnt => b \notin cleared[i]
             /\ W * i + b >= begin + cnt => (b \in cleared[i] <=> b \in ws[i])
  <2>1. PICK k \in Int : k = W * i + b
    BY WordOrder DEF Place
  <2>2. b \in cleared[i] <=> IF begin <= k /\ k < begin + cnt THEN FALSE ELSE b \in ws[i]
    BY <1>2, <1>3, <2>1, SetBitsSets DEF cleared
  <2>3. begin \in Int /\ begin + cnt \in Int /\ begin <= begin + cnt
    BY <1>2
  <2>4. k < begin => ~(begin <= k)
    BY <2>1, <2>3
  <2>5. k >= begin + cnt => ~(k < begin + cnt)
    BY <2>1, <2>3
  <2> HIDE DEF cleared
  <2> QED
    BY <2>1, <2>2, <2>4, <2>5
<1> HIDE DEF cleared
\* What a word behind the removal is made of
<1>5. ASSUME NEW i \in Index, NEW s \in Word
      PROVE  /\ Filled(i, s) \in Word
             /\ \A b \in Place :
                  b \in Filled(i, s) <=> b \in s \/ (i + 1 \in Index /\ b + cnt - W \in cleared[i + 1])
  <2>1. CASE i + 1 \in Index
    <3>1. /\ Imported(cleared[i + 1], cnt) \in Word
          /\ \A b \in Place : b \in Imported(cleared[i + 1], cnt) <=> b + cnt - W \in cleared[i + 1]
      BY <1>2, <1>3, <2>1, Imports
    <3> QED
      BY <2>1, <3>1 DEF Word
  <2>2. CASE i + 1 \notin Index
    BY <2>2
  <2> QED
    BY <2>1, <2>2
<1>6. ASSUME NEW i \in Index, i > w
      PROVE  /\ i + 1 \in Index => \A c \in Place : c \in cleared[i + 1] <=> c \in ws[i + 1]
             /\ \A c \in Place : W * i + c >= begin + cnt => (c \in cleared[i] <=> c \in ws[i])
  <2>1. /\ W * i \in Nat /\ W * i >= W * w + W /\ W * (i + 1) = W * i + W
    BY <1>1, <1>6, WordOrder
  <2>2. ASSUME i + 1 \in Index, NEW c \in Place PROVE W * (i + 1) + c >= begin + cnt
    BY <1>1, <1>2, <2>1 DEF Place
  <2> QED
    BY <1>4, <2>2
<1>7. \A i \in Index : \A c \in ws[i] : c \in Place
  BY <1>3 DEF Word, Place
<1>8. \A i \in Index : \A c \in cleared[i] : c \in Place
  BY <1>3 DEF Word, Place
\* Words that are shifted down and filled from the next
<1>9. ASSUME NEW i \in Index, NEW b \in Place,
             NEW s \in Word, b \in s <=> b + cnt \in ws[i],
             i + 1 \in Index /\ b + cnt >= W => (b + cnt - W \in cleared[i + 1] <=> b + cnt - W \in ws[i + 1])
      PROVE  b \in Filled(i, s) <=> Bit(a, W * i + b + cnt)
  <2>1. Bit(a, W * i + b + cnt) <=> b + cnt \in ws[i] \/ (i + 1 \in Index /\ b + cnt - W \in ws[i + 1])
    BY <1>2, BitBehind
  <2>2. b \in Filled(i, s) <=> b \in s \/ (i + 1 \in Index /\ b + cnt - W \in cleared[i + 1])
    BY <1>5
  <2>3. ~(b + cnt >= W) => b + cnt - W \notin Place
    BY <1>2 DEF Place
  <2> HIDE DEF Filled
  <2> QED
    BY <1>7, <1>8, <1>9, <2>1, <2>2, <2>3
<1> HIDE DEF Filled
<1>10. /\ Removed(ws, begin, cnt) \in [Index -> Word]
       /\ \A i \in Index, b \in Place :
            /\ W * i + b < begin => (b \in Removed(ws, begin, cnt)[i] <=> b \in ws[i])
            /\ W * i + b >= begin => (b \in Removed(ws, begin, cnt)[i] <=> Bit(a, W * i + b + cnt))
  <2>1. ASSUME NEW i \in Index, i > w
        PROVE  /\ Shr(cleared[i], cnt) \in Word
               /\ \A b \in Place : b \in Filled(i, Shr(cleared[i], cnt)) <=> Bit(a, W * i + b + cnt)
    <3>1. /\ Shr(cleared[i], cnt) \in Word
          /\ \A b \in Place : b \in Shr(cleared[i], cnt) <=> b + cnt \in cleared[i]
      BY <1>2, <1>3, Shifts
    <3>2. ASSUME NEW b \in Place PROVE b \in Shr(cleared[i], cnt) <=> b + cnt \in ws[i]
      <4>1. CASE b + cnt \in Place
        <5>1. W * i + (b + cnt) >= begin + cnt
          <6>1. /\ W * i \in Nat /\ W * i >= W * w + W
            BY <1>1, <2>1, WordOrder
          <6> QED
            BY <1>1, <1>2, <6>1 DEF Place
        <5> QED
          BY <1>6, <2>1, <3>1, <4>1, <5>1
      <4>2. CASE b + cnt \notin Place
        BY <1>7, <1>8, <3>1, <4>2
      <4> QED
        BY <4>1, <4>2
    <3>3. ASSUME NEW b \in Place, i + 1 \in Index, b + cnt >= W
          PROVE  b + cnt - W \in cleared[i + 1] <=> b + cnt - W \in ws[i + 1]
      <4>1. b + cnt - W \in Place
        BY <1>2, <3>3 DEF Place
      <4> QED
        BY <1>6, <2>1, <3>3, <4>1
    <3> QED
      BY <1>9, <3>1, <3>2, <3>3
  <2>2. ASSUME NEW i \in Index, NEW b \in Place, i > w PROVE ~(W * i + b < begin)
    <3>1. W * i \in Nat /\ W * i >= W * w + W
      BY <1>1, <2>2, WordOrder
    <3> QED
      BY <1>1, <1>2, <3>1 DEF Place
  <2>3. ASSUME NEW i \in Index, NEW b \in Place, i < w PROVE ~(W * i + b >= begin)
    <3>1. W * i \in Nat /\ W * i + W <= W * w
      BY <1>1, <2>3, WordOrder
    <3> QED
      BY <1>1, <1>2, <3>1 DEF Place
  <2>4. \A b \in Place : W * w + b \in Int /\ (W * w + b < begin <=> b < x) /\ (W * w + b >= begin <=> b >= x)
    BY <1>1, <1>2 DEF Place
  <2>5. \A i \in Index : i < w \/ i = w \/ i > w
    BY <1>2, WordSizes DEF Index
  <2>6. CASE x + cnt > W
    <3> DEFINE first == W - x
               rest == cnt - first
               second == Shr(cleared[w + 1], rest)
               raw == [i \in Index |->
                         IF i < w THEN ws[i]
                         ELSE IF i = w THEN cleared[w] \cup Imported(second, first)
                         ELSE IF i = w + 1 THEN Filled(i, Shr(second, first))
                         ELSE Filled(i, Shr(cleared[i], cnt))]
    <3>1. Removed(ws, begin, cnt) = raw
      BY <1>1, <2>6 DEF Removed, Filled, cleared
    <3>2. /\ first \in Nat /\ first <= W /\ rest \in Nat /\ first + rest = cnt
          /\ rest < W /\ rest > 0 /\ x = W - first
      BY <1>2, <2>6
    <3>3. w + 1 \in Index /\ W * (w + 1) = W * w + W
      <4>1. W * (w + 1) = W * w + W
        BY <1>1, WordOrder
      <4>2. w + 1 # WordCnt
        <5> SUFFICES ASSUME w + 1 = WordCnt PROVE FALSE
          OBVIOUS
        <5>1. begin + cnt <= W * w + W
          BY <4>1
        <5> QED
          BY <1>1, <1>2, <2>6, <5>1
      <4>3. w < WordCnt /\ WordCnt \in Nat
        BY <1>1, WordSizes DEF Index
      <4> QED
        BY <1>2, <4>1, <4>2, <4>3 DEF Index
    <3> HIDE DEF first, rest
    <3>4. /\ second \in Word
          /\ \A b \in Place : b \in second <=> b + rest \in cleared[w + 1]
      BY <1>3, <3>2, <3>3, Shifts
    <3>5. \A c \in Place : c >= rest => (c \in cleared[w + 1] <=> c \in ws[w + 1])
      <4> SUFFICES ASSUME NEW c \in Place, c >= rest PROVE c \in cleared[w + 1] <=> c \in ws[w + 1]
        OBVIOUS
      <4>1. PICK m \in Int : m = W * (w + 1) /\ m = W * w + W
        BY <1>2, <3>3
      <4>2. c \in Int /\ begin = W * w + x
        BY <1>1 DEF Place
      <4>3. W * (w + 1) + c >= begin + cnt
        BY <1>2, <3>2, <4>1, <4>2
      <4> QED
        BY <1>4, <3>3, <4>3
    <3> HIDE DEF second
    <3>6. /\ Imported(second, first) \in Word
          /\ \A b \in Place : b \in Imported(second, first) <=> b + first - W \in second
      BY <3>2, <3>4, Imports
    <3>7. ASSUME NEW b \in Place
          PROVE  /\ b < x => (b \in cleared[w] \cup Imported(second, first) <=> b \in ws[w])
                 /\ b >= x => (b \in cleared[w] \cup Imported(second, first)
                                 <=> Bit(a, W * w + b + cnt))
      <4>1. /\ b < x => (b \in cleared[w] <=> b \in ws[w])
            /\ b >= x => b \notin cleared[w]
        <5>1. W * w + b < begin + cnt
          BY <1>1, <1>2, <2>6 DEF Place
        <5>2. /\ W * w + b < begin => (b \in cleared[w] <=> b \in ws[w])
              /\ begin <= W * w + b /\ W * w + b < begin + cnt => b \notin cleared[w]
          BY <1>4
        <5> QED
          BY <1>1, <1>2, <2>4, <5>1, <5>2
      <4>2. b < x => b \notin Imported(second, first)
        <5>1. b < x => b + first - W \notin Place
          BY <1>2, <3>2 DEF Place
        <5> QED
          BY <3>4, <3>6, <5>1 DEF Word, Place
      <4>3. b >= x => (b \in Imported(second, first) <=> b + cnt - W \in ws[w + 1])
        <5> SUFFICES ASSUME b >= x PROVE b \in Imported(second, first) <=> b + cnt - W \in ws[w + 1]
          OBVIOUS
        <5>1. b + first - W \in Place /\ (b + first - W) + rest = b + cnt - W
              /\ b + cnt - W \in Place /\ b + cnt - W >= rest
          BY <1>2, <2>6, <3>2 DEF Place
        <5> QED
          BY <3>4, <3>5, <3>6, <5>1
      <4>4. Bit(a, W * w + b + cnt) <=> b + cnt \in ws[w] \/ b + cnt - W \in ws[w + 1]
        BY <1>1, <1>2, <3>3, BitBehind
      <4>5. b >= x => b + cnt \notin Place
        BY <1>2, <2>6 DEF Place
      <4> QED
        BY <1>7, <4>1, <4>2, <4>3, <4>4, <4>5
    <3>8. /\ Shr(second, first) \in Word
          /\ \A b \in Place : b \in Filled(w + 1, Shr(second, first)) <=> Bit(a, W * (w + 1) + b + cnt)
      <4>1. /\ Shr(second, first) \in Word
            /\ \A b \in Place : b \in Shr(second, first) <=> b + first \in second
        BY <3>2, <3>4, Shifts
      <4>2. ASSUME NEW b \in Place PROVE b \in Shr(second, first) <=> b + cnt \in ws[w + 1]
        <5>1. b \in Int /\ (b + first) + rest = b + cnt
          BY <3>2 DEF Place
        <5>2. CASE b + cnt \in Place
          <6>1. b + first \in Place /\ b + cnt >= rest
            BY <1>2, <3>2, <5>1, <5>2 DEF Place
          <6> QED
            BY <3>4, <3>5, <4>1, <5>1, <5>2, <6>1
        <5>3. CASE b + cnt \notin Place
          <6>1. b + first \in second => b + first \in Place
            BY <3>4 DEF Word, Place
          <6> QED
            BY <1>7, <1>8, <3>3, <3>4, <4>1, <5>1, <5>3, <6>1
        <5> QED
          BY <5>2, <5>3
      <4>3. ASSUME NEW b \in Place, (w + 1) + 1 \in Index, b + cnt >= W
            PROVE  b + cnt - W \in cleared[(w + 1) + 1] <=> b + cnt - W \in ws[(w + 1) + 1]
        <5>1. b + cnt - W \in Place /\ w + 1 > w
          BY <1>2, <4>3 DEF Place
        <5> QED
          BY <1>6, <3>3, <4>3, <5>1
      <4> QED
        BY <1>9, <3>3, <4>1, <4>2, <4>3
    <3>9. ASSUME NEW i \in Index PROVE raw[i] \in Word
      <4>1. i < w \/ i = w \/ i = w + 1 \/ i > w + 1
        BY <1>2, WordSizes DEF Index
      <4>2. cleared[w] \cup Imported(second, first) \in Word
        BY <1>3, <3>6 DEF Word
      <4>3. i > w => Filled(i, Shr(cleared[i], cnt)) \in Word
        BY <1>5, <2>1
      <4>4. Filled(w + 1, Shr(second, first)) \in Word
        BY <1>5, <3>3, <3>8
      <4> QED
        BY <1>2, <1>3, <4>1, <4>2, <4>3, <4>4
    <3>10. ASSUME NEW i \in Index, NEW b \in Place
           PROVE  /\ W * i + b < begin => (b \in raw[i] <=> b \in ws[i])
                  /\ W * i + b >= begin => (b \in raw[i] <=> Bit(a, W * i + b + cnt))
      <4>1. CASE i < w
        BY <2>3, <4>1
      <4>2. CASE i = w
        <5>1. raw[i] = cleared[w] \cup Imported(second, first)
          BY <1>2, <4>2
        <5> QED
          BY <2>4, <3>7, <4>2, <5>1
      <4>3. CASE i = w + 1
        <5>1. raw[i] = Filled(w + 1, Shr(second, first)) /\ i > w
          BY <1>2, <4>3
        <5> QED
          BY <2>2, <3>8, <4>3, <5>1
      <4>4. CASE i > w /\ i # w + 1
        <5>1. raw[i] = Filled(i, Shr(cleared[i], cnt))
          <6>1. ~(i < w) /\ i # w /\ i # w + 1
            BY <1>2, <4>4, WordSizes DEF Index
          <6> QED
            BY <6>1
        <5> QED
          BY <2>1, <2>2, <4>4, <5>1
      <4> QED
        BY <2>5, <4>1, <4>2, <4>3, <4>4
    <3>11. raw \in [Index -> Word]
      BY <3>9
    <3> HIDE DEF raw
    <3> QED
      BY <3>1, <3>10, <3>11
  <2>7. CASE ~(x + cnt > W)
    <3> DEFINE closed == IF x + cnt = W THEN cleared[w]
                         ELSE Shr(cleared[w] \ Ones(x + cnt), cnt)
                                \cup (cleared[w] \cap Ones(x + cnt))
               raw == [i \in Index |->
                         IF i < w THEN ws[i]
                         ELSE IF i = w THEN Filled(i, closed)
                         ELSE Filled(i, Shr(cleared[i], cnt))]
    <3>1. Removed(ws, begin, cnt) = raw
      BY <1>1, <2>7 DEF Removed, Filled, cleared
    <3>2. /\ closed \in Word
          /\ \A b \in Place : /\ b < x => (b \in closed <=> b \in ws[w])
                              /\ b >= x => (b \in closed <=> b + cnt \in ws[w])
      <4>1. ASSUME NEW b \in Place
            PROVE  /\ b < x => (b \in cleared[w] <=> b \in ws[w])
                   /\ b >= x /\ b < x + cnt => b \notin cleared[w]
                   /\ b >= x + cnt => (b \in cleared[w] <=> b \in ws[w])
        <5>1. W * w + b >= begin + cnt <=> b >= x + cnt
          BY <1>1, <1>2 DEF Place
        <5>2. W * w + b < begin + cnt <=> b < x + cnt
          BY <1>1, <1>2 DEF Place
        <5>3. /\ W * w + b < begin => (b \in cleared[w] <=> b \in ws[w])
              /\ begin <= W * w + b /\ W * w + b < begin + cnt => b \notin cleared[w]
              /\ W * w + b >= begin + cnt => (b \in cleared[w] <=> b \in ws[w])
          BY <1>4
        <5> QED
          BY <1>2, <2>4, <5>1, <5>2, <5>3
      <4>2. CASE x + cnt = W
        <5>1. \A b \in Place : b >= x => b < x + cnt /\ b + cnt \notin Place
          BY <1>2, <4>2 DEF Place
        <5> QED
          BY <1>3, <1>7, <4>1, <4>2, <5>1
      <4>3. CASE x + cnt # W
        <5>1. cleared[w] \ Ones(x + cnt) \in Word /\ cleared[w] \cap Ones(x + cnt) \in Word
          BY <1>3 DEF Word
        <5>2. /\ Shr(cleared[w] \ Ones(x + cnt), cnt) \in Word
              /\ \A b \in Place : b \in Shr(cleared[w] \ Ones(x + cnt), cnt)
                                    <=> b + cnt \in cleared[w] \ Ones(x + cnt)
          BY <1>2, <5>1, Shifts
        <5>3. \A b \in Nat : b \in Ones(x + cnt) <=> b < x + cnt
          BY <1>2 DEF Ones
        <5>4. closed \in Word
          BY <4>3, <5>1, <5>2 DEF Word
        <5>5. ASSUME NEW b \in Place PROVE b \in closed
                <=> (b + cnt \in cleared[w] /\ b >= x) \/ (b \in cleared[w] /\ b < x + cnt)
          <6>1. b \in Nat /\ b + cnt \in Nat /\ (b + cnt < x + cnt <=> b < x) /\ (b < x <=> ~(b >= x))
            BY <1>2 DEF Place
          <6> QED
            BY <4>3, <5>2, <5>3, <6>1
        <5>6. ASSUME NEW b \in Place, b >= x PROVE b + cnt \in cleared[w] <=> b + cnt \in ws[w]
          <6>1. CASE b + cnt \in Place
            <7>1. b + cnt >= x + cnt
              BY <1>2, <5>6 DEF Place
            <7> QED
              BY <4>1, <6>1, <7>1
          <6>2. CASE b + cnt \notin Place
            BY <1>7, <1>8, <6>2
          <6> QED
            BY <6>1, <6>2
        <5>7. \A b \in Place : (b < x => b < x + cnt /\ ~(b >= x)) /\ b \in Int
          BY <1>2 DEF Place
        <5> HIDE DEF closed
        <5> QED
          BY <4>1, <5>4, <5>5, <5>6, <5>7
      <4> QED
        BY <4>2, <4>3
    <3> HIDE DEF closed
    <3>3. w + 1 \in Index => \A c \in Place : c \in cleared[w + 1] <=> c \in ws[w + 1]
      <4> SUFFICES ASSUME w + 1 \in Index, NEW c \in Place PROVE c \in cleared[w + 1] <=> c \in ws[w + 1]
        OBVIOUS
      <4>1. W * (w + 1) = W * w + W
        BY <1>1, WordOrder
      <4>2. W * (w + 1) + c >= begin + cnt
        BY <1>1, <1>2, <2>7, <4>1 DEF Place
      <4> QED
        BY <1>4, <4>2
    <3>4. ASSUME NEW b \in Place
          PROVE  /\ b < x => (b \in Filled(w, closed) <=> b \in ws[w])
                 /\ b >= x => (b \in Filled(w, closed) <=> Bit(a, W * w + b + cnt))
      <4>1. b \in Filled(w, closed)
              <=> b \in closed \/ (w + 1 \in Index /\ b + cnt - W \in cleared[w + 1])
        BY <1>5, <3>2
      <4>2. CASE b < x
        <5>1. b + cnt - W \notin Place
          BY <1>2, <2>7, <4>2 DEF Place
        <5>2. ~(b >= x)
          BY <1>2, <4>2 DEF Place
        <5> QED
          BY <1>8, <3>2, <4>1, <4>2, <5>1, <5>2
      <4>3. CASE b >= x
        <5>1. ASSUME w + 1 \in Index, b + cnt >= W
              PROVE  b + cnt - W \in cleared[w + 1] <=> b + cnt - W \in ws[w + 1]
          <6>1. b + cnt - W \in Place
            BY <1>2, <5>1 DEF Place
          <6> QED
            BY <3>3, <5>1, <6>1
        <5>2. b \in Filled(w, closed) <=> Bit(a, W * w + b + cnt)
          BY <1>9, <3>2, <4>3, <5>1
        <5>3. ~(b < x)
          BY <1>2, <4>3 DEF Place
        <5> QED
          BY <5>2, <5>3
      <4> QED
        BY <1>2, <4>2, <4>3 DEF Place
    <3>5. ASSUME NEW i \in Index PROVE raw[i] \in Word
      <4>1. i > w => Filled(i, Shr(cleared[i], cnt)) \in Word
        BY <1>5, <2>1
      <4>2. Filled(w, closed) \in Word
        BY <1>5, <3>2
      <4> QED
        BY <1>2, <1>3, <2>5, <4>1, <4>2
    <3>6. ASSUME NEW i \in Index, NEW b \in Place
          PROVE  /\ W * i + b < begin => (b \in raw[i] <=> b \in ws[i])
                 /\ W * i + b >= begin => (b \in raw[i] <=> Bit(a, W * i + b + cnt))
      <4>1. CASE i < w
        BY <2>3, <4>1
      <4>2. CASE i = w
        <5>1. raw[i] = Filled(w, closed)
          BY <1>2, <4>2
        <5> QED
          BY <2>4, <3>4, <4>2, <5>1
      <4>3. CASE i > w
        <5>1. raw[i] = Filled(i, Shr(cleared[i], cnt))
          <6>1. ~(i < w) /\ i # w
            BY <1>2, <4>3, WordSizes DEF Index
          <6> QED
            BY <6>1
        <5> QED
          BY <2>1, <2>2, <4>3, <5>1
      <4> QED
        BY <2>5, <4>1, <4>2, <4>3
    <3>7. raw \in [Index -> Word]
      BY <3>5
    <3> HIDE DEF raw
    <3> QED
      BY <3>1, <3>6, <3>7
  <2> QED
    BY <2>6, <2>7
<1>11. ASSUME NEW i \in Index, NEW b \in Place
       PROVE  new[W * i + b] <=> b \in Removed(ws, begin, cnt)[i]
  <2>1. PICK k \in Bits : k = W * i + b /\ k \in Int
    BY PlaceIsBit, WordSizes
  <2>2. new[k] = IF k < begin THEN a[k] ELSE Bit(a, k + cnt)
    BY <1>3 DEF RemoveBits
  <2>3. /\ k < begin => (b \in Removed(ws, begin, cnt)[i] <=> a[k])
        /\ k >= begin => (b \in Removed(ws, begin, cnt)[i] <=> Bit(a, k + cnt))
    BY <1>10, <2>1 DEF Holds
  <2>4. new[k] <=> b \in Removed(ws, begin, cnt)[i]
    <3> HIDE DEF new
    <3> QED
      BY <1>2, <2>1, <2>2, <2>3
  <2> QED
    BY <2>1, <2>4
<1>12. new \in [Bits -> BOOLEAN]
  BY <1>3 DEF RemoveBits, Bit
<1> QED
  BY <1>10, <1>11, <1>12 DEF Holds

-----------------------------------------------------------------------------
\* A write of one bit
LEMMA SetNodeHolds ==
  ASSUME Holds(words, bits), NEW k \in Bits, NEW val \in BOOLEAN, SetNode(k, val)
  PROVE  Holds(words', bits')
<1>1. words \in [Index -> Word] /\ bits \in [Bits -> BOOLEAN] /\ k \in Nat /\ k + 1 \in Nat
  BY WordSizes DEF Holds
<1>2. /\ words' = SetBits(words, k, k + 1, val)
      /\ bits' = [j \in Bits |-> IF j = k THEN val ELSE bits[j]]
  BY <1>1 DEF SetNode, SetBit
<1>3. words' \in [Index -> Word] /\ bits' \in [Bits -> BOOLEAN]
  BY <1>1, <1>2, SetBitsSets
<1>4. ASSUME NEW i \in Index, NEW b \in Place PROVE bits'[W * i + b] <=> b \in words'[i]
  <2>1. PICK j \in Bits : j = W * i + b /\ j \in Int
    BY PlaceIsBit, WordSizes
  <2>2. b \in words'[i] <=> IF k <= j /\ j < k + 1 THEN val ELSE b \in words[i]
    BY <1>1, <1>2, <2>1, SetBitsSets
  <2>3. k <= j /\ j < k + 1 <=> j = k
    BY <1>1, <2>1
  <2>4. bits[j] <=> b \in words[i]
    BY <2>1 DEF Holds
  <2>5. bits'[j] <=> b \in words'[i]
    BY <1>2, <2>2, <2>3, <2>4
  <2> QED
    BY <2>1, <2>5
<1> QED
  BY <1>3, <1>4 DEF Holds

\* Words of 1-bits put in front of the others
LEMMA PrependHolds ==
  ASSUME Holds(words, bits), NEW explicit \in 0 .. WordCnt, NEW cnt \in 1 .. WordCnt,
         Prepend(explicit, cnt)
  PROVE  Holds(words', bits')
<1>1. /\ W \in Nat /\ W > 1 /\ WordCnt \in Nat /\ explicit \in Nat /\ cnt \in Nat /\ cnt > 0
      /\ explicit + cnt <= WordCnt /\ W * cnt \in Nat
  <2>1. \A x, y \in Nat : x * y \in Nat
    OBVIOUS
  <2> QED
    BY <2>1, WordSizes DEF Prepend
<1>2. /\ words \in [Index -> Word] /\ bits \in [Bits -> BOOLEAN]
      /\ \A i \in Index : i >= explicit => words[i] = {}
  BY <1>1, WordSizes DEF Holds, Prepend, Index
<1>3. bits' = [k \in Bits |-> IF k < 0 THEN bits[k] ELSE IF k < 0 + W * cnt THEN TRUE
                              ELSE bits[k - W * cnt]]
  BY <1>2 DEF Prepend, InsertBits
<1>4. \A i \in Index : words'[i] = IF i < cnt THEN Ones(W)
                                   ELSE IF i - cnt \in 0 .. explicit - 1 THEN words[i - cnt]
                                   ELSE IF i < explicit THEN {} ELSE words[i]
  BY DEF Prepend
<1>5. Ones(W) \in Word /\ \A b \in Place : b \in Ones(W)
  BY DEF Ones, Word, Place
<1>6. ASSUME NEW i \in Index, i >= cnt
      PROVE  i - cnt \in Index /\ words'[i] = words[i - cnt]
  <2>1. i \in Nat /\ ~(i < cnt) /\ i - cnt \in Index /\ i - cnt \in Nat
    BY <1>1, <1>6 DEF Index
  <2>2. CASE i - cnt \in 0 .. explicit - 1
    BY <1>4, <2>1, <2>2
  <2>3. CASE i - cnt \notin 0 .. explicit - 1
    <3>1. i - cnt >= explicit /\ i >= explicit /\ ~(i < explicit)
      BY <1>1, <2>1, <2>3
    <3>2. words[i - cnt] = {} /\ words[i] = {}
      BY <1>2, <2>1, <3>1
    <3> QED
      BY <1>4, <2>1, <2>3, <3>1, <3>2
  <2> QED
    BY <2>1, <2>2, <2>3
<1>7. ASSUME NEW i \in Index PROVE words'[i] \in Word
  <2>1. CASE i < cnt
    BY <1>4, <1>5, <2>1
  <2>2. CASE i >= cnt
    BY <1>2, <1>6, <2>2
  <2> QED
    BY <1>1, <2>1, <2>2 DEF Index
<1>8. words' \in [Index -> Word]
  BY <1>7 DEF Prepend
<1>9. ASSUME NEW i \in Index, NEW b \in Place PROVE bits'[W * i + b] <=> b \in words'[i]
  <2>1. PICK k \in Bits : k = W * i + b /\ k \in Nat
    BY PlaceIsBit, WordSizes
  <2>2. W * i \in Nat /\ i \in Nat
    BY WordOrder
  <2>3. CASE i < cnt
    <3>1. W * i + W <= W * cnt
      BY <1>1, <2>2, <2>3, BlockOrder
    <3>2. k < W * cnt
      BY <1>1, <2>1, <2>2, <3>1 DEF Place
    <3>3. bits'[k] = TRUE
      BY <1>1, <1>3, <2>1, <3>2
    <3> QED
      BY <1>4, <1>5, <2>1, <2>3, <3>3
  <2>4. CASE i >= cnt
    <3>1. W * (i - cnt) = W * i - W * cnt /\ W * (i - cnt) \in Nat
      <4>1. i - cnt \in Index
        BY <1>6, <2>4
      <4>2. \A u, x, y \in Int : u * (x - y) = u * x - u * y
        OBVIOUS
      <4> QED
        BY <1>1, <2>2, <4>1, <4>2, WordOrder
    <3>2. k - W * cnt = W * (i - cnt) + b /\ ~(k < W * cnt)
      BY <1>1, <2>1, <2>2, <3>1 DEF Place
    <3>3. bits'[k] = bits[W * (i - cnt) + b]
      BY <1>1, <1>3, <2>1, <3>2
    <3>4. bits[W * (i - cnt) + b] <=> b \in words[i - cnt]
      BY <1>6, <2>4 DEF Holds
    <3> QED
      BY <1>6, <2>1, <2>4, <3>3, <3>4
  <2> QED
    BY <1>1, <2>2, <2>3, <2>4
<1>10. bits' \in [Bits -> BOOLEAN]
  <2>1. ASSUME NEW k \in Bits PROVE bits'[k] \in BOOLEAN
    <3>1. k \in Nat /\ ~(k < 0) /\ (~(k < 0 + W * cnt) => k - W * cnt \in Bits)
      BY <1>1, WordSizes
    <3> QED
      BY <1>2, <1>3, <3>1
  <2> QED
    BY <1>3, <2>1
<1> QED
  BY <1>8, <1>9, <1>10 DEF Holds

-----------------------------------------------------------------------------
\* The words hold the bits at the start, and every step keeps them.
LEMMA InitHolds == Init => Holds(words, bits)
<1> SUFFICES ASSUME Init PROVE Holds(words, bits)
  OBVIOUS
<1>1. words = [i \in Index |-> {}] /\ bits = [k \in Bits |-> FALSE]
  BY DEF Init
<1>2. \A i \in Index, b \in Place : W * i + b \in Bits
  BY PlaceIsBit
<1> QED
  BY <1>1, <1>2 DEF Holds, Word

\* Every step keeps the words the bits of the array.
LEMMA NextHolds == Holds(words, bits) /\ [Next]_vars => Holds(words, bits)'
<1> SUFFICES ASSUME Holds(words, bits), [Next]_vars PROVE Holds(words', bits')
  BY DEF Holds
<1>1. ASSUME NEW begin_idx \in Bits, NEW cnt \in 1 .. W - 1, NEW val \in BOOLEAN,
             Insert(begin_idx, cnt, val)
      PROVE  Holds(words', bits')
  BY <1>1, InsertHolds DEF Insert
<1>2. ASSUME NEW begin_idx \in Bits, NEW cnt \in 1 .. W - 1, Remove(begin_idx, cnt)
      PROVE  Holds(words', bits')
  BY <1>2, RemoveHolds DEF Remove
<1>3. ASSUME NEW i \in Bits, NEW val \in BOOLEAN, SetNode(i, val) PROVE Holds(words', bits')
  BY <1>3, SetNodeHolds
<1>4. ASSUME NEW explicit \in 0 .. WordCnt, NEW cnt \in 1 .. WordCnt, Prepend(explicit, cnt)
      PROVE  Holds(words', bits')
  BY <1>4, PrependHolds
<1>5. CASE UNCHANGED vars
  BY <1>5 DEF vars
<1> QED
  BY <1>1, <1>2, <1>3, <1>4, <1>5 DEF Next

\* Whatever is inserted, removed, set or put in front, the words hold the bits
\* in their order: none is lost, doubled or left behind.
THEOREM WordsHold == Spec => []WordsHoldBits
<1>1. Holds(words, bits) => WordsHoldBits
  <2> SUFFICES ASSUME Holds(words, bits), NEW k \in Bits
               PROVE  bits[k] <=> k % W \in words[k \div W]
    BY DEF WordsHoldBits
  <2>1. PICK i \in Index, b \in Place : k = W * i + b /\ i = k \div W /\ b = k % W
    BY BitHasPlace
  <2> QED
    BY <2>1 DEF Holds
<1> QED
  BY <1>1, InitHolds, NextHolds, PTL DEF Spec

-----------------------------------------------------------------------------
\* A function of the subsets of A that grows with each element by its gain
Totals(F, gain, A) ==
  /\ F \in [SUBSET A -> Int] /\ F[{}] = 0
  /\ \A i \in A : gain[i] \in Int
  /\ \A s \in SUBSET A : \A x \in s : F[s] = gain[x] + F[s \ {x}]

\* What such a function says of the whole set is the sum of the gains.
LEMMA SumIs ==
  ASSUME NEW gain, NEW A, IsFiniteSet(A), NEW F, Totals(F, gain, A)
  PROVE  SumFunctionOnSet(gain, A) = F[A]
<1>0. /\ F \in [SUBSET A -> Int] /\ F[{}] = 0
      /\ \A i \in A : gain[i] \in Int
      /\ \A s \in SUBSET A : \A x \in s : F[s] = gain[x] + F[s \ {x}]
  BY DEF Totals
<1> DEFINE Chosen(s) == CHOOSE x \in s : TRUE
           Sums(g) == g = [s \in SUBSET A |-> IF s = {} THEN 0
                                              ELSE gain[Chosen(s)] + g[s \ {Chosen(s)}]]
           sum == CHOOSE g : Sums(g)
<1>1. SumFunctionOnSet(gain, A) = sum[A]
  BY DEF SumFunctionOnSet, FoldFunctionOnSet, MapThenFoldSet
<1>2. \A s \in SUBSET A : s # {} => Chosen(s) \in s
  OBVIOUS
<1>3. Sums(F)
  <2>1. ASSUME NEW s \in SUBSET A
        PROVE  F[s] = IF s = {} THEN 0 ELSE gain[Chosen(s)] + F[s \ {Chosen(s)}]
    BY <1>0, <1>2
  <2> QED
    BY <1>0, <2>1
<1> HIDE DEF Sums
<1>4. Sums(sum)
  BY <1>3
<1> HIDE DEF sum, Chosen
<1>5. \A s \in SUBSET A : sum[s] = IF s = {} THEN 0 ELSE gain[Chosen(s)] + sum[s \ {Chosen(s)}]
  BY <1>4 DEF Sums
<1>6. \A s \in SUBSET A : IsFiniteSet(s) /\ Cardinality(s) \in Nat
  BY FS_Subset, FS_CardinalityType
<1> DEFINE Wrong == {s \in SUBSET A : sum[s] # F[s]}
           Sizes == {Cardinality(s) : s \in Wrong}
<1>7. Wrong = {}
  <2> SUFFICES ASSUME Wrong # {} PROVE FALSE
    OBVIOUS
  <2>1. Sizes \subseteq Nat /\ Sizes # {}
    BY <1>6
  <2>2. PICK k \in Sizes : \A l \in Sizes : k <= l
    BY <2>1, LeastNatural
  <2>3. PICK s \in Wrong : \A r \in Wrong : Cardinality(s) <= Cardinality(r)
    BY <2>2
  <2>4. s # {}
    BY <1>0, <1>5, <2>3
  <2>5. PICK x \in s : x = Chosen(s)
    BY <1>2, <2>4
  <2>6. s \ {x} \in SUBSET A /\ Cardinality(s \ {x}) = Cardinality(s) - 1
    BY <1>6, <2>3, FS_RemoveElement
  <2>7. s \ {x} \notin Wrong
    BY <1>6, <2>3, <2>6
  <2>8. sum[s \ {x}] = F[s \ {x}]
    BY <2>6, <2>7
  <2>9. sum[s] = gain[x] + sum[s \ {x}] /\ F[s] = gain[x] + F[s \ {x}]
    BY <1>0, <1>5, <2>3, <2>4, <2>5
  <2> QED
    BY <2>3, <2>8, <2>9
<1> QED
  BY <1>1, <1>7

-----------------------------------------------------------------------------
\* The 1-bits of an array in a range
Among(a, lo, hi) == {k \in Bits : lo <= k /\ k < hi /\ a[k]}
Count(a, lo, hi) == Cardinality(Among(a, lo, hi))

\* They are finitely many, at most the bits of the array.
LEMMA CountType ==
  ASSUME NEW a, NEW lo, NEW hi
  PROVE  IsFiniteSet(Among(a, lo, hi)) /\ Count(a, lo, hi) \in 0 .. W * WordCnt
<1>1. PICK m \in Nat : m = W * WordCnt
  BY WordSizes
<1>2. IsFiniteSet(Bits) /\ Cardinality(Bits) = m
  <2>1. Bits = 0 .. m - 1 /\ 0 \in Int /\ m - 1 \in Int
    BY <1>1, WordSizes
  <2>2. IsFiniteSet(0 .. m - 1) /\ Cardinality(0 .. m - 1) = IF 0 > m - 1 THEN 0 ELSE m - 1 - 0 + 1
    BY <2>1, FS_Interval
  <2> QED
    BY <1>1, <2>1, <2>2
<1>3. Among(a, lo, hi) \in SUBSET Bits
  BY DEF Among
<1>4. IsFiniteSet(Among(a, lo, hi)) /\ Cardinality(Among(a, lo, hi)) <= m
  BY <1>2, <1>3, FS_Subset
<1>5. Cardinality(Among(a, lo, hi)) \in Nat
  BY <1>4, FS_CardinalityType
<1> QED
  BY <1>1, <1>4, <1>5 DEF Count

\* A set counts as many as a range of the array when it is the 1-bits of that
\* range, moved.
LEMMA CountOf ==
  ASSUME NEW a, NEW lo \in Int, NEW hi \in Int, NEW d \in Int, NEW X,
         \A x \in X : x \in Int /\ x + d \in Among(a, lo, hi),
         \A k \in Among(a, lo, hi) : k - d \in X
  PROVE  Cardinality(X) = Count(a, lo, hi)
<1> DEFINE S == Among(a, lo, hi)
           f == [k \in S |-> k - d]
<1>1. S \subseteq Int
  BY WordSizes DEF Among
<1>2. f \in [S -> X]
  OBVIOUS
<1>3. ASSUME NEW k \in S, NEW l \in S, f[k] = f[l] PROVE k = l
  BY <1>1, <1>3
<1>4. ASSUME NEW x \in X PROVE \E k \in S : f[k] = x
  <2>1. x + d \in S /\ x + d - d = x
    BY <1>4
  <2> QED
    BY <2>1
<1>5. f \in Bijection(S, X)
  BY <1>2, <1>3, <1>4 DEF Bijection, Injection, Surjection, IsInjective
<1>6. ExistsBijection(S, X)
  BY <1>5 DEF ExistsBijection
<1> QED
  BY <1>6, CountType, FS_Bijection DEF Count

\* Two arrays count the same in ranges that are the same, moved.
Moved(a, b, lo, hi, d) ==
  /\ \A k \in Int : lo <= k /\ k < hi /\ k \in Bits /\ b[k] => k + d \in Bits /\ a[k + d]
  /\ \A k \in Int : lo <= k /\ k < hi /\ k + d \in Bits /\ a[k + d] => k \in Bits /\ b[k]

\* A range and the range it is moved to hold the same number of 1-bits.
LEMMA CountMoved ==
  ASSUME NEW a, NEW b, NEW lo \in Int, NEW hi \in Int, NEW d \in Int, Moved(a, b, lo, hi, d)
  PROVE  Count(b, lo, hi) = Count(a, lo + d, hi + d)
<1>1. Bits \subseteq Int
  BY WordSizes
<1>2. ASSUME NEW x \in Among(b, lo, hi) PROVE x \in Int /\ x + d \in Among(a, lo + d, hi + d)
  BY <1>1, <1>2 DEF Among, Moved
<1>3. ASSUME NEW k \in Among(a, lo + d, hi + d) PROVE k - d \in Among(b, lo, hi)
  <2>1. /\ k \in Int /\ k - d \in Int /\ k - d + d = k /\ lo <= k - d /\ k - d < hi
        /\ k \in Bits /\ a[k]
    BY <1>1, <1>3 DEF Among
  <2> QED
    BY <2>1 DEF Among, Moved
<1> QED
  BY <1>2, <1>3, CountOf DEF Count

\* A range in two parts
LEMMA CountSplit ==
  ASSUME NEW a, NEW lo \in Int, NEW mid \in Int, NEW hi \in Int, lo <= mid, mid <= hi
  PROVE  Count(a, lo, hi) = Count(a, lo, mid) + Count(a, mid, hi)
<1>1. Bits \subseteq Int
  BY WordSizes
<1>2. Among(a, lo, hi) = Among(a, lo, mid) \cup Among(a, mid, hi)
  <2>1. ASSUME NEW k \in Bits
        PROVE  /\ (lo <= k /\ k < hi) <=> ((lo <= k /\ k < mid) \/ (mid <= k /\ k < hi))
               /\ ~(k < mid /\ mid <= k)
    BY <1>1, <2>1
  <2>2. ASSUME NEW k \in Among(a, lo, hi)
        PROVE  k \in Among(a, lo, mid) \/ k \in Among(a, mid, hi)
    BY <2>1, <2>2 DEF Among
  <2>3. ASSUME NEW k \in Among(a, lo, mid) PROVE k \in Among(a, lo, hi)
    BY <1>1, <2>3 DEF Among
  <2>4. ASSUME NEW k \in Among(a, mid, hi) PROVE k \in Among(a, lo, hi)
    BY <1>1, <2>4 DEF Among
  <2> QED
    BY <2>2, <2>3, <2>4
<1>3. Among(a, lo, mid) \cap Among(a, mid, hi) = {}
  <2>1. ASSUME NEW k \in Bits PROVE ~(k < mid /\ mid <= k)
    BY <1>1, <2>1
  <2> QED
    BY <2>1, Zenon DEF Among
<1>4. /\ IsFiniteSet(Among(a, lo, mid)) /\ IsFiniteSet(Among(a, mid, hi))
      /\ Count(a, lo, mid) \in Nat /\ Count(a, mid, hi) \in Nat
  BY CountType
<1>5. Cardinality(Among(a, lo, mid) \cap Among(a, mid, hi)) = 0
  BY <1>3, FS_EmptySet
<1>6. Cardinality(Among(a, lo, hi)) = Count(a, lo, mid) + Count(a, mid, hi) - 0
  BY <1>2, <1>4, <1>5, FS_Union DEF Count
<1> QED
  BY <1>4, <1>6 DEF Count

\* A range of equal bits
LEMMA CountEqual ==
  ASSUME NEW a, NEW lo \in Nat, NEW hi \in Nat, lo <= hi, hi <= W * WordCnt, NEW val \in BOOLEAN,
         \A k \in Bits : lo <= k /\ k < hi => a[k] = val
  PROVE  Count(a, lo, hi) = IF val THEN hi - lo ELSE 0
<1>0. PICK m \in Nat : m = W * WordCnt /\ Bits = 0 .. m - 1
  BY WordSizes
<1>1. CASE val
  <2>1. Among(a, lo, hi) = lo .. hi - 1
    <3>1. \A k : k \in lo .. hi - 1 <=> k \in Bits /\ lo <= k /\ k < hi
      BY <1>0
    <3>2. \A k \in Bits : lo <= k /\ k < hi => a[k]
      BY <1>1, Zenon
    <3> QED
      BY <3>1, <3>2, Zenon DEF Among
  <2>2. lo \in Int /\ hi - 1 \in Int
    OBVIOUS
  <2>3. Cardinality(lo .. hi - 1) = IF lo > hi - 1 THEN 0 ELSE hi - 1 - lo + 1
    BY <2>2, FS_Interval
  <2>4. Cardinality(lo .. hi - 1) = hi - lo
    BY <2>3
  <2> QED
    BY <1>1, <2>1, <2>4 DEF Count
<1>2. CASE ~val
  <2>1. Among(a, lo, hi) = {}
    BY <1>2 DEF Among
  <2> QED
    BY <1>2, <2>1, FS_EmptySet DEF Count
<1> QED
  BY <1>1, <1>2

-----------------------------------------------------------------------------
\* The 1-bits in some of the words
InWords(a, s) == {k \in Bits : k \div W \in s /\ a[k]}

\* The 1-bits in some words are those of one of them and those of the others.
LEMMA InWordsAdd ==
  ASSUME NEW a, NEW s \in SUBSET Index, NEW x \in s
  PROVE  /\ Cardinality(InWords(a, s)) \in Nat /\ Cardinality(InWords(a, s \ {x})) \in Nat
         /\ Cardinality(InWords(a, s)) =
              Cardinality(InWords(a, s \ {x})) + Count(a, W * x, W * x + W)
<1>1. /\ W \in Nat /\ W > 0 /\ Bits = 0 .. W * WordCnt - 1 /\ W * WordCnt \in Nat
      /\ x \in Nat /\ W * x \in Nat /\ W * x + W = W * (x + 1)
  BY WordSizes, WordOrder
<1>2. ASSUME NEW k \in Bits PROVE k \div W = x <=> W * x <= k /\ k < W * x + W
  <2>1. PICK i \in Index : i = k \div W
    BY BitHasPlace
  <2>2. i < x <=> k < W * x
    BY <1>1, <2>1, BeforeBlock
  <2>3. i < x + 1 <=> k < W * (x + 1)
    BY <1>1, <2>1, BeforeBlock
  <2> QED
    BY <1>1, <2>1, <2>2, <2>3 DEF Index
<1>3. Among(a, W * x, W * x + W) = InWords(a, {x})
  <2>1. ASSUME NEW k \in Bits PROVE W * x <= k /\ k < W * x + W <=> k \div W \in {x}
    BY <1>2
  <2>2. ASSUME NEW k \in Among(a, W * x, W * x + W) PROVE k \in InWords(a, {x})
    BY <2>1 DEF Among, InWords
  <2>3. ASSUME NEW k \in InWords(a, {x}) PROVE k \in Among(a, W * x, W * x + W)
    BY <2>1 DEF Among, InWords
  <2> QED
    BY <2>2, <2>3
<1>4. InWords(a, s) = InWords(a, s \ {x}) \cup InWords(a, {x})
  <2>1. ASSUME NEW k \in InWords(a, s)
        PROVE  k \in InWords(a, s \ {x}) \/ k \in InWords(a, {x})
    BY DEF InWords
  <2>2. ASSUME NEW k \in InWords(a, s \ {x}) PROVE k \in InWords(a, s)
    BY DEF InWords
  <2>3. ASSUME NEW k \in InWords(a, {x}) PROVE k \in InWords(a, s)
    BY DEF InWords
  <2> QED
    BY <2>1, <2>2, <2>3
<1>5. InWords(a, s \ {x}) \cap InWords(a, {x}) = {}
  BY DEF InWords
<1>6. IsFiniteSet(Bits)
  BY <1>1, FS_Interval
<1>7. \A r \in {s, s \ {x}, {x}} : IsFiniteSet(InWords(a, r)) /\ Cardinality(InWords(a, r)) \in Nat
  <2>1. \A r : InWords(a, r) \in SUBSET Bits
    BY DEF InWords
  <2> QED
    BY <1>6, <2>1, FS_Subset, FS_CardinalityType
<1>8. Cardinality(InWords(a, s \ {x}) \cap InWords(a, {x})) = 0
  BY <1>5, FS_EmptySet
<1>9. Cardinality(InWords(a, s)) =
        Cardinality(InWords(a, s \ {x})) + Cardinality(InWords(a, {x})) - 0
  BY <1>4, <1>7, <1>8, FS_Union
<1> QED
  BY <1>3, <1>7, <1>9 DEF Count

\* The gains of some words sum up to what they gain together.
LEMMA GainsSumUp ==
  ASSUME NEW a, NEW b, NEW A \in SUBSET Index, NEW gain,
         \A i \in A : gain[i] = Count(b, W * i, W * i + W) - Count(a, W * i, W * i + W)
  PROVE  SumFunctionOnSet(gain, A) = Cardinality(InWords(b, A)) - Cardinality(InWords(a, A))
<1> DEFINE F == [s \in SUBSET A |-> Cardinality(InWords(b, s)) - Cardinality(InWords(a, s))]
<1>1. IsFiniteSet(A)
  <2>1. IsFiniteSet(Index)
    BY WordSizes, FS_Interval DEF Index
  <2> QED
    BY <2>1, FS_Subset
<1>2. \A i \in A : Count(b, W * i, W * i + W) \in Nat /\ Count(a, W * i, W * i + W) \in Nat
  BY CountType
<1>3. \A s \in SUBSET A : Cardinality(InWords(a, s)) \in Nat /\ Cardinality(InWords(b, s)) \in Nat
  <2>1. \A s : InWords(a, s) \in SUBSET Bits /\ InWords(b, s) \in SUBSET Bits
    BY DEF InWords
  <2>2. IsFiniteSet(Bits)
    BY WordSizes, FS_Interval
  <2> QED
    BY <2>1, <2>2, FS_Subset, FS_CardinalityType
<1>4. F \in [SUBSET A -> Int]
  BY <1>3
<1>5. F[{}] = 0
  <2>1. InWords(a, {}) = {} /\ InWords(b, {}) = {}
    BY DEF InWords
  <2> QED
    BY <2>1, FS_EmptySet
<1>6. ASSUME NEW s \in SUBSET A, NEW x \in s PROVE F[s] = gain[x] + F[s \ {x}]
  <2>1. s \in SUBSET Index /\ x \in A /\ s \ {x} \in SUBSET A
    OBVIOUS
  <2>2. gain[x] = Count(b, W * x, W * x + W) - Count(a, W * x, W * x + W)
    BY <2>1
  <2>3. /\ Cardinality(InWords(a, s)) =
             Cardinality(InWords(a, s \ {x})) + Count(a, W * x, W * x + W)
        /\ Cardinality(InWords(b, s)) =
             Cardinality(InWords(b, s \ {x})) + Count(b, W * x, W * x + W)
    BY <2>1, InWordsAdd
  <2>4. /\ F[s] = Cardinality(InWords(b, s)) - Cardinality(InWords(a, s))
        /\ F[s \ {x}] = Cardinality(InWords(b, s \ {x})) - Cardinality(InWords(a, s \ {x}))
    BY <2>1
  <2> QED
    BY <1>2, <1>3, <2>1, <2>2, <2>3, <2>4
<1>7. \A i \in A : gain[i] \in Int
  BY <1>2
<1>8. F[A] = Cardinality(InWords(b, A)) - Cardinality(InWords(a, A))
  OBVIOUS
<1> HIDE DEF F
<1>9. Totals(F, gain, A)
  BY <1>4, <1>5, <1>6, <1>7 DEF Totals
<1>10. SumFunctionOnSet(gain, A) = F[A]
  BY <1>1, <1>9, SumIs
<1> QED
  BY <1>8, <1>10

\* The table of the bits before stays exact when word_idx is the first word that
\* changes, and each word from there on gains what gain says.
LEMMA LutHolds ==
  ASSUME NEW a, NEW b, NEW w \in Index, NEW gain,
         \A i \in Index : w <= i =>
           gain[i] = Count(b, W * i, W * i + W) - Count(a, W * i, W * i + W),
         \A k \in Bits : k < W * w => b[k] = a[k]
  PROVE  LutAfter(init_inplace(a), w, gain) = init_inplace(b)
<1> DEFINE blocks == WordsPerBlock
           lut == init_inplace(a)
<1>1. /\ W \in Nat /\ W > 0 /\ blocks \in Nat /\ blocks > 0 /\ w \in Nat /\ W * w \in Nat
      /\ Bits = 0 .. W * WordCnt - 1 /\ W * WordCnt \in Nat /\ WordCnt \in Nat
  BY WordSizes, WordOrder, TebWordsAssumption
<1>2. \A i \in Index : Count(b, W * i, W * i + W) \in Nat /\ Count(a, W * i, W * i + W) \in Nat
  BY CountType
<1>3. ASSUME NEW q \in 0 .. BlockCnt
      PROVE  LutAfter(lut, w, gain)[q] = Before(b, W * blocks * q)
  <2>1. /\ q \in Nat /\ blocks * q \in Nat /\ W * (blocks * q) \in Nat
        /\ W * blocks * q = W * (blocks * q)
    BY <1>1
  <2>2. PICK e \in Nat : e = W * blocks * q /\ e = W * (blocks * q)
    BY <2>1
  <2>3. PICK j \in Nat : j = blocks * q
    BY <2>1
  <2>4. Before(a, e) = Count(a, 0, e) /\ Before(b, e) = Count(b, 0, e)
    <3>1. \A k \in Bits : 0 <= k
      BY <1>1
    <3> QED
      BY <3>1 DEF Before, Count, Among
  <2>5. q <= Block(w) <=> j <= w
    <3>1. w \div blocks < q <=> w < j
      BY <1>1, <2>1, <2>3, BeforeBlock
    <3>2. w \div blocks \in Nat
      BY <1>1, BlockOf
    <3> QED
      BY <1>1, <2>1, <2>3, <3>1, <3>2 DEF Block
  <2>6. lut[q] = Before(a, e)
    BY <2>2 DEF init_inplace
  <2>7. CASE q <= Block(w)
    <3>1. e <= W * w
      <4>1. j < w => W * j + W <= W * w
        BY <1>1, <2>3, BlockOrder
      <4> QED
        BY <1>1, <2>2, <2>3, <2>5, <2>7, <4>1
    <3>2. \A k \in Bits : k < e => b[k] = a[k]
      BY <1>1, <3>1
    <3>3. Before(b, e) = Before(a, e)
      <4>1. {k \in Bits : k < e /\ b[k]} = {k \in Bits : k < e /\ a[k]}
        BY <3>2, Zenon
      <4> QED
        BY <4>1 DEF Before
    <3>4. LutAfter(lut, w, gain)[q] = lut[q]
      BY <2>7 DEF LutAfter
    <3> QED
      BY <2>2, <2>6, <3>3, <3>4
  <2>8. CASE ~(q <= Block(w))
    <3> DEFINE A == {i \in Index : w <= i /\ Block(i) < q}
               gained == Cardinality(InWords(b, A)) - Cardinality(InWords(a, A))
    <3>1. ~(j <= w) /\ W * w + W <= e
      BY <1>1, <2>2, <2>3, <2>5, <2>8, BlockOrder
    <3>2. SumFunctionOnSet(gain, A) = gained
      <4>1. A \in SUBSET Index /\ \A i \in A : w <= i
        OBVIOUS
      <4> HIDE DEF A
      <4> QED
        BY <4>1, GainsSumUp
    <3>3. ASSUME NEW k \in Bits PROVE k \div W \in A <=> W * w <= k /\ k < e
      <4>1. PICK i \in Index : i = k \div W
        BY BitHasPlace
      <4>2. i < w <=> k < W * w
        BY <1>1, <4>1, BeforeBlock
      <4>3. i < j <=> k < W * j
        BY <1>1, <2>3, <4>1, BeforeBlock
      <4>4. i \div blocks < q <=> i < j
        BY <1>1, <2>1, <2>3, BeforeBlock DEF Index
      <4> QED
        BY <1>1, <2>2, <2>3, <4>1, <4>2, <4>3, <4>4 DEF Block, Index
    <3>4. Among(a, W * w, e) = InWords(a, A) /\ Among(b, W * w, e) = InWords(b, A)
      <4> HIDE DEF A
      <4>1. ASSUME NEW c PROVE Among(c, W * w, e) = InWords(c, A)
        <5>1. \A k \in Among(c, W * w, e) : k \in InWords(c, A)
          BY <3>3 DEF Among, InWords
        <5>2. \A k \in InWords(c, A) : k \in Among(c, W * w, e)
          BY <3>3 DEF Among, InWords
        <5> QED
          BY <5>1, <5>2
      <4> QED
        BY <4>1
    <3>5. gained = Count(b, W * w, e) - Count(a, W * w, e)
      BY <3>4 DEF Count
    <3>6. /\ Count(a, 0, e) = Count(a, 0, W * w) + Count(a, W * w, e)
           /\ Count(b, 0, e) = Count(b, 0, W * w) + Count(b, W * w, e)
      BY <1>1, <2>2, <3>1, CountSplit
    <3>7. Count(a, 0, W * w) = Count(b, 0, W * w)
      <4>1. Among(a, 0, W * w) = Among(b, 0, W * w)
        BY Zenon DEF Among
      <4> QED
        BY <4>1 DEF Count
    <3>8. LutAfter(lut, w, gain)[q] = lut[q] + SumFunctionOnSet(gain, A)
      BY <2>8 DEF LutAfter
    <3>9. /\ Count(a, 0, e) \in Nat /\ Count(b, 0, e) \in Nat /\ Count(a, 0, W * w) \in Nat
           /\ Count(a, W * w, e) \in Nat /\ Count(b, W * w, e) \in Nat
      BY CountType
    <3>10. Before(b, e) = Before(a, e) + gained
      <4> HIDE DEF gained
      <4> QED
        BY <2>4, <3>5, <3>6, <3>7, <3>9
    <3> QED
      BY <2>2, <2>6, <3>2, <3>8, <3>10
  <2> QED
    BY <2>7, <2>8
<1> HIDE DEF lut
<1>4. LutAfter(lut, w, gain) = [q \in 0 .. BlockCnt |-> LutAfter(lut, w, gain)[q]]
  BY DEF LutAfter
<1>5. init_inplace(b) = [q \in 0 .. BlockCnt |-> Before(b, W * blocks * q)]
  BY DEF init_inplace
<1> QED
  BY <1>3, <1>4, <1>5 DEF lut

-----------------------------------------------------------------------------
\* A set counts as many as a part of a word when it is that part, moved.
LEMMA CountInWord ==
  ASSUME NEW ws, NEW a, Holds(ws, a), NEW i \in Index,
         NEW lo \in 0 .. W, NEW hi \in 0 .. W, NEW d \in Int, NEW X,
         \A x \in X : x \in Int /\ lo <= x + d /\ x + d < hi /\ x + d \in ws[i],
         \A b \in ws[i] : lo <= b /\ b < hi => b - d \in X
  PROVE  Cardinality(X) = Count(a, W * i + lo, W * i + hi)
<1>1. W \in Nat /\ W * i \in Nat /\ Bits \subseteq Int
  BY WordSizes, WordOrder
<1>2. PICK o \in Nat : o = W * i
  BY <1>1
<1>3. ASSUME NEW b \in Place
      PROVE  b \in Int /\ o + b \in Bits /\ (a[o + b] <=> b \in ws[i])
  BY <1>1, <1>2, PlaceIsBit DEF Holds, Place
<1>4. ws[i] \subseteq Place
  BY DEF Holds, Word, Place
<1>5. ASSUME NEW x \in X
      PROVE  x \in Int /\ x + (o + d) \in Among(a, o + lo, o + hi)
  <2>1. x \in Int /\ lo <= x + d /\ x + d < hi /\ x + d \in Place /\ x + d \in ws[i]
    BY <1>4
  <2>2. PICK b \in Place : b = x + d
    BY <2>1
  <2>3. o + b \in Bits /\ a[o + b] /\ b \in Int /\ lo <= b /\ b < hi
    BY <1>3, <2>1, <2>2
  <2>4. x + (o + d) = o + b /\ o + lo <= o + b /\ o + b < o + hi
    BY <1>1, <2>1, <2>2, <2>3
  <2> QED
    BY <2>1, <2>3, <2>4 DEF Among
<1>6. ASSUME NEW k \in Among(a, o + lo, o + hi) PROVE k - (o + d) \in X
  <2>1. k \in Int /\ o + lo <= k /\ k < o + hi /\ a[k]
    BY <1>1 DEF Among
  <2>2. k - o \in Place /\ k = o + (k - o) /\ lo <= k - o /\ k - o < hi
    BY <1>1, <2>1 DEF Place
  <2>3. PICK b \in Place : b = k - o
    BY <2>2
  <2>4. b \in ws[i]
    BY <1>3, <2>1, <2>2, <2>3
  <2>5. b - d \in X
    BY <2>2, <2>3, <2>4
  <2> QED
    BY <2>1, <2>3, <2>5
<1>7. o + lo \in Int /\ o + hi \in Int /\ o + d \in Int
  BY <1>1
<1> QED
  BY <1>2, <1>5, <1>6, <1>7, CountOf

\* What leaves a word at either end, or stays
LEMMA ShiftCounts ==
  ASSUME NEW ws, NEW a, Holds(ws, a), NEW i \in Index, NEW k \in 0 .. W
  PROVE  /\ count_set_bits(Shr(ws[i], k)) = Count(a, W * i + k, W * i + W)
         /\ count_set_bits(Shl(ws[i], k)) = Count(a, W * i, W * i + W - k)
         /\ count_set_bits(ws[i]) = Count(a, W * i, W * i + W)
<1>1. /\ W \in Nat /\ W * i \in Nat /\ ws[i] \in Word /\ ws[i] \subseteq Place /\ k \in Nat
      /\ \A b \in ws[i] : b \in Place
  BY WordSizes, WordOrder DEF Holds, Word, Place
<1>2. count_set_bits(Shr(ws[i], k)) = Count(a, W * i + k, W * i + W)
  <2>1. \A x \in Shr(ws[i], k) : x \in Int /\ k <= x + k /\ x + k < W /\ x + k \in ws[i]
    <3>1. \A x \in Shr(ws[i], k) : x \in Place /\ x + k \in ws[i]
      BY <1>1, Shifts DEF Word, Place
    <3> QED
      BY <1>1, <3>1 DEF Place
  <2>2. \A b \in ws[i] : k <= b /\ b < W => b - k \in Shr(ws[i], k)
    <3>1. ASSUME NEW b \in ws[i], k <= b PROVE b - k \in Place /\ b - k + k = b
      BY <1>1, <3>1 DEF Place
    <3> QED
      BY <1>1, <3>1, Shifts
  <2>3. k \in 0 .. W /\ W \in 0 .. W /\ k \in Int
    BY <1>1
  <2> QED
    BY <2>1, <2>2, <2>3, CountInWord DEF count_set_bits
<1>3. count_set_bits(Shl(ws[i], k)) = Count(a, W * i, W * i + W - k)
  <2>1. \A x \in Shl(ws[i], k) :
          x \in Int /\ 0 <= x + (0 - k) /\ x + (0 - k) < W - k /\ x + (0 - k) \in ws[i]
    <3>1. \A x \in Shl(ws[i], k) : x \in Place /\ x - k \in ws[i]
      BY <1>1, Shifts DEF Word, Place
    <3>2. \A x \in Place : x - k \in Place => 
            x \in Int /\ 0 <= x + (0 - k) /\ x + (0 - k) < W - k /\ x + (0 - k) = x - k
      BY <1>1 DEF Place
    <3> QED
      BY <1>1, <3>1, <3>2
  <2>2. \A b \in ws[i] : 0 <= b /\ b < W - k => b - (0 - k) \in Shl(ws[i], k)
    <3>1. ASSUME NEW b \in ws[i], b < W - k PROVE b - (0 - k) \in Shl(ws[i], k)
      <4>1. b \in Place /\ b \in Int
        BY <1>1 DEF Place
      <4>2. b + k \in Place /\ b + k - k = b /\ b - (0 - k) = b + k
        BY <1>1, <3>1, <4>1 DEF Place
      <4>3. \A c \in Place : c \in Shl(ws[i], k) <=> c - k \in ws[i]
        BY <1>1, Shifts
      <4>4. b + k \in Shl(ws[i], k)
        BY <1>1, <4>1, <4>2, <4>3
      <4> QED
        BY <4>2, <4>4
    <3> QED
      BY <3>1
  <2>3. 0 \in 0 .. W /\ W - k \in 0 .. W /\ 0 - k \in Int
    BY <1>1
  <2>4. Cardinality(Shl(ws[i], k)) = Count(a, W * i + 0, W * i + (W - k))
    BY <2>1, <2>2, <2>3, CountInWord
  <2>5. W * i + 0 = W * i /\ W * i + (W - k) = W * i + W - k
    BY <1>1
  <2> QED
    BY <2>4, <2>5 DEF count_set_bits
<1>4. count_set_bits(ws[i]) = Count(a, W * i, W * i + W)
  <2>1. \A x \in ws[i] : x \in Int /\ 0 <= x + 0 /\ x + 0 < W /\ x + 0 \in ws[i]
    BY <1>1 DEF Place
  <2>2. \A b \in ws[i] : 0 <= b /\ b < W => b - 0 \in ws[i]
    BY <1>1 DEF Place
  <2>3. 0 \in 0 .. W /\ W \in 0 .. W /\ 0 \in Int
    BY <1>1
  <2>4. Cardinality(ws[i]) = Count(a, W * i + 0, W * i + W)
    BY <2>1, <2>2, <2>3, CountInWord
  <2>5. W * i + 0 = W * i
    BY <1>1
  <2> QED
    BY <2>4, <2>5 DEF count_set_bits
<1> QED
  BY <1>2, <1>3, <1>4

\* What an insertion changes in the counts: nothing before it, and behind it only
\* where they are.
LEMMA InsertCounts ==
  ASSUME NEW a, DOMAIN a = Bits, NEW begin \in Bits, NEW cnt \in Nat, NEW val \in BOOLEAN,
         NEW lo \in Nat, NEW hi \in Nat, lo <= hi
  PROVE  LET b == InsertBits(a, begin, cnt, val)
         IN  /\ begin <= lo /\ hi + cnt <= W * WordCnt
                  => Count(b, lo + cnt, hi + cnt) = Count(a, lo, hi)
             /\ hi <= begin => Count(b, lo, hi) = Count(a, lo, hi)
             /\ begin <= lo /\ hi <= begin + cnt /\ hi <= W * WordCnt
                  => Count(b, lo, hi) = IF val THEN hi - lo ELSE 0
<1> DEFINE b == InsertBits(a, begin, cnt, val)
<1>1. PICK m \in Nat : m = W * WordCnt /\ Bits = 0 .. m - 1
  BY WordSizes
<1>2. \A k \in Bits : b[k] = IF k < begin THEN a[k] ELSE IF k < begin + cnt THEN val
                             ELSE a[k - cnt]
  BY DEF InsertBits
<1> HIDE DEF b
<1>3. ASSUME begin <= lo, hi + cnt <= m PROVE Count(b, lo + cnt, hi + cnt) = Count(a, lo, hi)
  <2>1. ASSUME NEW k \in Int, lo <= k, k < hi
        PROVE  k \in Bits /\ k + cnt \in Bits /\ b[k + cnt] = a[k]
    <3>1. k \in Bits /\ k + cnt \in Bits /\ ~(k + cnt < begin) /\ ~(k + cnt < begin + cnt)
          /\ k + cnt - cnt = k
      BY <1>1, <1>3, <2>1
    <3> QED
      BY <1>2, <3>1
  <2>2. Moved(b, a, lo, hi, cnt)
    BY <2>1 DEF Moved
  <2> QED
    BY <2>2, CountMoved
<1>4. ASSUME hi <= begin PROVE Count(b, lo, hi) = Count(a, lo, hi)
  <2>1. ASSUME NEW k \in Bits, k < hi PROVE b[k] = a[k]
    <3>1. k < begin
      BY <1>1, <1>4, <2>1
    <3> QED
      BY <1>2, <3>1
  <2>2. Among(b, lo, hi) = Among(a, lo, hi)
    BY <2>1, Zenon DEF Among
  <2> QED
    BY <2>2 DEF Count
<1>5. ASSUME begin <= lo, hi <= begin + cnt, hi <= m
      PROVE  Count(b, lo, hi) = IF val THEN hi - lo ELSE 0
  <2>1. ASSUME NEW k \in Bits, lo <= k, k < hi PROVE b[k] = val
    <3>1. ~(k < begin) /\ k < begin + cnt
      BY <1>1, <1>5, <2>1
    <3> QED
      BY <1>2, <3>1
  <2> QED
    BY <1>1, <1>5, <2>1, CountEqual
<1> QED
  BY <1>1, <1>3, <1>4, <1>5 DEF b

\* The same of a removal
LEMMA RemoveCounts ==
  ASSUME NEW a, DOMAIN a = Bits, NEW begin \in Bits, NEW cnt \in Nat,
         NEW lo \in Nat, NEW hi \in Nat
  PROVE  LET b == RemoveBits(a, begin, cnt)
         IN  /\ begin <= lo => Count(b, lo, hi) = Count(a, lo + cnt, hi + cnt)
             /\ hi <= begin => Count(b, lo, hi) = Count(a, lo, hi)
<1> DEFINE b == RemoveBits(a, begin, cnt)
<1>1. PICK m \in Nat : m = W * WordCnt /\ Bits = 0 .. m - 1
  BY WordSizes
<1>2. \A k \in Bits : b[k] = IF k < begin THEN a[k] ELSE Bit(a, k + cnt)
  BY DEF RemoveBits
<1> HIDE DEF b
<1>3. ASSUME begin <= lo PROVE Count(b, lo, hi) = Count(a, lo + cnt, hi + cnt)
  <2>1. ASSUME NEW k \in Int, lo <= k, k < hi, k \in Bits, b[k]
        PROVE  k + cnt \in Bits /\ a[k + cnt]
    <3>1. ~(k < begin)
      BY <1>1, <1>3, <2>1
    <3> QED
      BY <1>2, <2>1, <3>1 DEF Bit
  <2>2. ASSUME NEW k \in Int, lo <= k, k < hi, k + cnt \in Bits, a[k + cnt]
        PROVE  k \in Bits /\ b[k]
    <3>1. k \in Bits /\ ~(k < begin)
      BY <1>1, <1>3, <2>2
    <3>2. Bit(a, k + cnt)
      BY <2>2 DEF Bit
    <3> QED
      BY <1>2, <3>1, <3>2
  <2>3. lo \in Int /\ hi \in Int /\ cnt \in Int
    OBVIOUS
  <2>4. Moved(a, b, lo, hi, cnt)
    BY <2>1, <2>2 DEF Moved
  <2> QED
    BY <2>3, <2>4, CountMoved
<1>4. ASSUME hi <= begin PROVE Count(b, lo, hi) = Count(a, lo, hi)
  <2>1. ASSUME NEW k \in Bits, k < hi PROVE b[k] = a[k]
    <3>1. k < begin
      BY <1>1, <1>4, <2>1
    <3> QED
      BY <1>2, <3>1
  <2>2. Among(b, lo, hi) = Among(a, lo, hi)
    BY <2>1, Zenon DEF Among
  <2> QED
    BY <2>2 DEF Count
<1> QED
  BY <1>3, <1>4 DEF b

-----------------------------------------------------------------------------
\* The gains that an insertion adds to the rank table are what each word gains.
LEMMA InsertGainIsExact ==
  ASSUME NEW ws, NEW a, Holds(ws, a),
         NEW begin \in Bits, NEW cnt \in 1 .. W - 1, NEW val \in BOOLEAN,
         NEW i \in Index, begin \div W <= i
  PROVE  LET b == InsertBits(a, begin, cnt, val)
         IN  InsertGain(ws, begin, cnt, val)[i] =
               Count(b, W * i, W * i + W) - Count(a, W * i, W * i + W)
<1> DEFINE b == InsertBits(a, begin, cnt, val)
           If(val_cnt) == IF val THEN val_cnt ELSE 0
<1>1. PICK w \in Index, x \in Place : begin = W * w + x /\ w = begin \div W /\ x = begin % W
  BY BitHasPlace
<1>2. PICK m \in Nat : m = W * WordCnt
  BY WordSizes
<1>3. PICK o \in Nat, v \in Nat : o = W * i /\ v = W * w
  BY WordOrder
<1>4. /\ W \in Nat /\ x \in Nat /\ x < W /\ cnt \in Nat /\ 0 < cnt /\ cnt < W
      /\ w \in Nat /\ i \in Nat /\ w <= i /\ o + W <= m /\ begin \in Nat /\ begin < m
      /\ begin = v + x
  <2>1. /\ i < WordCnt /\ WordCnt \in Nat /\ i \in Nat /\ w \in Nat
        /\ W \in Nat /\ Bits = 0 .. m - 1
    BY <1>2, WordSizes DEF Index
  <2>2. W * i + W <= W * WordCnt
    BY <2>1, BlockOrder
  <2>3. o + W <= m /\ begin = v + x /\ w <= i
    BY <1>1, <1>2, <1>3, <2>2
  <2>4. begin \in 0 .. m - 1 /\ x \in 0 .. W - 1 /\ cnt \in 1 .. W - 1
    BY <2>1 DEF Place
  <2> QED
    BY <2>1, <2>3, <2>4
<1>5. ASSUME NEW lo \in Nat, NEW hi \in Nat, lo <= hi
      PROVE  /\ begin <= lo /\ hi + cnt <= m => Count(b, lo + cnt, hi + cnt) = Count(a, lo, hi)
             /\ hi <= begin => Count(b, lo, hi) = Count(a, lo, hi)
             /\ begin <= lo /\ hi <= begin + cnt /\ hi <= m => Count(b, lo, hi) = If(hi - lo)
  <2>1. DOMAIN a = Bits
    BY DEF Holds
  <2> QED
    BY <1>2, <1>4, <1>5, <2>1, InsertCounts
<1> HIDE DEF b
<1>6. ASSUME NEW lo \in Nat, NEW mid \in Nat, NEW hi \in Nat, lo <= mid, mid <= hi
      PROVE  /\ Count(a, lo, hi) = Count(a, lo, mid) + Count(a, mid, hi)
             /\ Count(b, lo, hi) = Count(b, lo, mid) + Count(b, mid, hi)
  BY <1>6, CountSplit
<1>7. \A lo, hi : Count(a, lo, hi) \in Nat /\ Count(b, lo, hi) \in Nat
  BY CountType
<1>8. \A j \in Index : count_set_bits(Shr(ws[j], W - cnt)) = Count(a, W * j + (W - cnt), W * j + W)
  <2>1. W - cnt \in 0 .. W
    BY <1>4
  <2> QED
    BY <2>1, ShiftCounts
<1>9. PICK first \in Nat : first = W - x /\ W - first = x
  BY <1>4
<1>10. count_set_bits(Shr(ws[w], W - first)) = Count(a, begin, v + W)
  <2>1. W - first \in 0 .. W /\ W - first = x
    BY <1>4, <1>9
  <2>2. count_set_bits(Shr(ws[w], W - first)) = Count(a, W * w + (W - first), W * w + W)
    BY <2>1, ShiftCounts
  <2> QED
    BY <1>3, <1>4, <1>9, <2>2
<1>11. PICK g : g = InsertGain(ws, begin, cnt, val)[i]
  OBVIOUS
<1> DEFINE Exported(j) == count_set_bits(Shr(ws[j], W - cnt))
           moved == count_set_bits(Shr(ws[w], W - first))
<1>12. g = IF i < w THEN 0
           ELSE IF x + cnt >= W /\ i = w THEN If(first) - moved
           ELSE IF x + cnt >= W /\ i = w + 1 THEN If(cnt - first) + moved - Exported(i)
           ELSE IF i = w THEN If(cnt) - Exported(i)
           ELSE Exported(i - 1) - Exported(i)
  BY <1>1, <1>9, <1>11, Zenon DEF InsertGain
<1>13. CASE i = w /\ x + cnt >= W
  <2>1. g = If(first) - count_set_bits(Shr(ws[w], W - first))
    BY <1>4, <1>13, <1>12
  <2>2. begin = o + x /\ o <= begin /\ begin <= o + W /\ o + W <= begin + cnt /\ v = o
    BY <1>3, <1>4, <1>13
  <2>3. /\ Count(b, o, o + W) = Count(b, o, begin) + Count(b, begin, o + W)
        /\ Count(a, o, o + W) = Count(a, o, begin) + Count(a, begin, o + W)
    BY <1>4, <1>6, <2>2
  <2>4. Count(b, o, begin) = Count(a, o, begin)
    BY <1>4, <1>5, <2>2
  <2>5. Count(b, begin, o + W) = If(o + W - begin)
    BY <1>4, <1>5, <2>2
  <2>6. o + W - begin = first
    BY <1>4, <1>9, <2>2
  <2>7. g = Count(b, o, o + W) - Count(a, o, o + W)
    BY <1>7, <1>9, <1>10, <2>1, <2>2, <2>3, <2>4, <2>5, <2>6
  <2> QED
    BY <1>3, <1>11, <2>7 DEF b
<1>14. CASE i = w /\ ~(x + cnt >= W)
  <2>1. g = If(cnt) - count_set_bits(Shr(ws[i], W - cnt))
    BY <1>4, <1>14, <1>12
  <2>2. /\ begin = o + x /\ o <= begin /\ begin + cnt <= o + W /\ o + W - cnt \in Nat
        /\ begin <= o + W - cnt /\ o + W - cnt + cnt = o + W /\ begin <= begin + cnt
        /\ o + (W - cnt) = o + W - cnt /\ o + W - cnt <= o + W /\ begin <= o + W
    BY <1>3, <1>4, <1>14
  <2>3. Count(b, o, o + W) = Count(b, o, begin) + Count(b, begin, o + W)
    BY <1>4, <1>6, <2>2
  <2>4. Count(b, begin, o + W) = Count(b, begin, begin + cnt) + Count(b, begin + cnt, o + W)
    BY <1>4, <1>6, <2>2
  <2>5. Count(a, o, o + W) = Count(a, o, begin) + Count(a, begin, o + W)
    BY <1>4, <1>6, <2>2
  <2>6. Count(a, begin, o + W) = Count(a, begin, o + W - cnt) + Count(a, o + W - cnt, o + W)
    BY <1>4, <1>6, <2>2
  <2>7. Count(b, o, begin) = Count(a, o, begin)
    BY <1>4, <1>5, <2>2
  <2>8. Count(b, begin, begin + cnt) = If(begin + cnt - begin)
    BY <1>4, <1>5, <2>2
  <2>9. begin + cnt - begin = cnt
    BY <1>4
  <2>10. Count(b, begin + cnt, o + W) = Count(a, begin, o + W - cnt)
    BY <1>4, <1>5, <2>2
  <2>11. count_set_bits(Shr(ws[i], W - cnt)) = Count(a, o + W - cnt, o + W)
    BY <1>3, <1>8, <2>2
  <2>12. g = Count(b, o, o + W) - Count(a, o, o + W)
    BY <1>4, <1>7, <2>1, <2>3, <2>4, <2>5, <2>6, <2>7, <2>8, <2>9, <2>10, <2>11
  <2> QED
    BY <1>3, <1>11, <2>12 DEF b
<1>15. CASE i = w + 1 /\ x + cnt >= W
  <2>1. g = If(cnt - first) + count_set_bits(Shr(ws[w], W - first))
              - count_set_bits(Shr(ws[i], W - cnt))
    BY <1>4, <1>15, <1>12
  <2>2. v + W = o
    BY <1>3, <1>15, WordOrder
  <2>3. /\ o = begin + first /\ o <= begin + cnt /\ begin + cnt <= o + W
        /\ o + W - cnt \in Nat /\ begin <= o /\ o <= o + W - cnt
        /\ begin <= o + W - cnt /\ o + W - cnt + cnt = o + W
        /\ o + (W - cnt) = o + W - cnt /\ o + W - cnt <= o + W
    BY <1>4, <1>9, <1>15, <2>2
  <2>4. Count(b, o, o + W) = Count(b, o, begin + cnt) + Count(b, begin + cnt, o + W)
    BY <1>4, <1>6, <2>3
  <2>5. Count(b, o, begin + cnt) = If(begin + cnt - o)
    BY <1>4, <1>5, <2>3
  <2>6. begin + cnt - o = cnt - first
    BY <1>4, <1>9, <2>3
  <2>7. Count(b, begin + cnt, o + W) = Count(a, begin, o + W - cnt)
    BY <1>4, <1>5, <2>3
  <2>8. Count(a, begin, o + W - cnt) = Count(a, begin, o) + Count(a, o, o + W - cnt)
    BY <1>4, <1>6, <2>3
  <2>9. Count(a, o, o + W) = Count(a, o, o + W - cnt) + Count(a, o + W - cnt, o + W)
    BY <1>4, <1>6, <2>3
  <2>10. count_set_bits(Shr(ws[i], W - cnt)) = Count(a, o + W - cnt, o + W)
    BY <1>3, <1>8, <2>3
  <2>11. count_set_bits(Shr(ws[w], W - first)) = Count(a, begin, o)
    BY <1>10, <2>2
  <2>12. g = Count(b, o, o + W) - Count(a, o, o + W)
    BY <1>4, <1>7, <1>9, <2>1, <2>4, <2>5, <2>6, <2>7, <2>8, <2>9, <2>10, <2>11
  <2> QED
    BY <1>3, <1>11, <2>12 DEF b
<1>16. CASE w < i /\ ~(i = w + 1 /\ x + cnt >= W)
  <2>1. i - 1 \in Index /\ W * (i - 1) = o - W /\ W * (i - 1) \in Nat
    <3>1. i - 1 \in Index
      BY <1>4, <1>16, WordSizes DEF Index
    <3> QED
      BY <1>3, <3>1, WordOrder
  <2>2. g = count_set_bits(Shr(ws[i - 1], W - cnt)) - count_set_bits(Shr(ws[i], W - cnt))
    BY <1>4, <1>16, <1>12
  <2>3. begin + cnt <= o
    <3>1. CASE i = w + 1
      <4>1. v + W = o
        BY <1>3, <3>1, WordOrder
      <4> QED
        BY <1>4, <1>16, <3>1, <4>1
    <3>2. CASE i # w + 1
      <4>1. w < i - 1
        BY <1>4, <1>16, <3>2
      <4>2. v + W <= o - W
        BY <1>3, <2>1, <4>1, WordOrder
      <4> QED
        BY <1>4, <4>2
    <3> QED
      BY <3>1, <3>2
  <2>4. /\ o - cnt \in Nat /\ begin <= o - cnt /\ o + W - cnt \in Nat /\ o - cnt <= o
        /\ o <= o + W - cnt /\ o - cnt <= o + W - cnt
        /\ o - cnt + cnt = o /\ o + W - cnt + cnt = o + W /\ o + W - cnt <= o + W
        /\ o - W + (W - cnt) = o - cnt /\ o - W + W = o /\ o + (W - cnt) = o + W - cnt
    BY <1>4, <2>3
  <2>5. Count(b, o, o + W) = Count(a, o - cnt, o + W - cnt)
    BY <1>4, <1>5, <2>4
  <2>6. Count(a, o - cnt, o + W - cnt) = Count(a, o - cnt, o) + Count(a, o, o + W - cnt)
    BY <1>4, <1>6, <2>4
  <2>7. Count(a, o, o + W) = Count(a, o, o + W - cnt) + Count(a, o + W - cnt, o + W)
    BY <1>4, <1>6, <2>4
  <2>8. count_set_bits(Shr(ws[i], W - cnt)) = Count(a, o + W - cnt, o + W)
    BY <1>3, <1>8, <2>4
  <2>9. count_set_bits(Shr(ws[i - 1], W - cnt)) = Count(a, o - cnt, o)
    BY <1>8, <2>1, <2>4
  <2>10. g = Count(b, o, o + W) - Count(a, o, o + W)
    BY <1>7, <2>2, <2>5, <2>6, <2>7, <2>8, <2>9
  <2> QED
    BY <1>3, <1>11, <2>10 DEF b
<1> QED
  BY <1>4, <1>13, <1>14, <1>15, <1>16

\* The gains that a removal adds are what each word gains.
LEMMA RemoveGainIsExact ==
  ASSUME NEW ws, NEW a, Holds(ws, a),
         NEW begin \in Bits, NEW cnt \in 1 .. W - 1, begin + cnt <= W * WordCnt,
         NEW i \in Index, begin \div W <= i
  PROVE  LET b == RemoveBits(a, begin, cnt)
         IN  RemoveGain(ws, begin, cnt)[i] =
               Count(b, W * i, W * i + W) - Count(a, W * i, W * i + W)
<1> DEFINE b == RemoveBits(a, begin, cnt)
<1>1. PICK w \in Index, x \in Place : begin = W * w + x /\ w = begin \div W /\ x = begin % W
  BY BitHasPlace
<1>2. PICK m \in Nat : m = W * WordCnt
  BY WordSizes
<1>3. PICK o \in Nat, v \in Nat : o = W * i /\ v = W * w
  BY WordOrder
<1>4. /\ W \in Nat /\ x \in Nat /\ x < W /\ cnt \in Nat /\ 0 < cnt /\ cnt < W
      /\ w \in Nat /\ i \in Nat /\ w <= i /\ o + W <= m /\ begin \in Nat /\ begin < m
      /\ begin = v + x /\ begin + cnt <= m
  <2>1. /\ i < WordCnt /\ WordCnt \in Nat /\ i \in Nat /\ w \in Nat
        /\ W \in Nat /\ Bits = 0 .. m - 1
    BY <1>2, WordSizes DEF Index
  <2>2. W * i + W <= W * WordCnt
    BY <2>1, BlockOrder
  <2>3. o + W <= m /\ begin = v + x /\ w <= i /\ begin + cnt <= m
    BY <1>1, <1>2, <1>3, <2>2
  <2>4. begin \in 0 .. m - 1 /\ x \in 0 .. W - 1 /\ cnt \in 1 .. W - 1
    BY <2>1 DEF Place
  <2> QED
    BY <2>1, <2>3, <2>4
<1>5. ASSUME NEW lo \in Nat, NEW hi \in Nat
      PROVE  /\ begin <= lo => Count(b, lo, hi) = Count(a, lo + cnt, hi + cnt)
             /\ hi <= begin => Count(b, lo, hi) = Count(a, lo, hi)
  <2>1. DOMAIN a = Bits
    BY DEF Holds
  <2> QED
    BY <1>4, <2>1, RemoveCounts
<1> HIDE DEF b
<1>6. ASSUME NEW lo \in Nat, NEW mid \in Nat, NEW hi \in Nat, lo <= mid, mid <= hi
      PROVE  /\ Count(a, lo, hi) = Count(a, lo, mid) + Count(a, mid, hi)
             /\ Count(b, lo, hi) = Count(b, lo, mid) + Count(b, mid, hi)
  BY <1>6, CountSplit
<1>7. \A lo, hi : Count(a, lo, hi) \in Nat /\ Count(b, lo, hi) \in Nat
  BY CountType
<1> DEFINE Leaving(j) == count_set_bits(Shl(ws[j], W - cnt))
           Entering(j) == IF j + 1 \in Index THEN Leaving(j + 1) ELSE 0
\* The low bits of a word, which leave it; of none behind the last word
<1>8. ASSUME NEW j \in Index, NEW k \in 0 .. W
      PROVE  count_set_bits(Shl(ws[j], W - k)) = Count(a, W * j, W * j + k)
  <2>1. W - k \in 0 .. W /\ W * j \in Nat /\ W * j + W - (W - k) = W * j + k
    BY <1>4, WordOrder
  <2> QED
    BY <2>1, ShiftCounts
<1>9. Entering(i) = Count(a, o + W, o + W + cnt)
  <2>1. CASE i + 1 \in Index
    <3>1. W * (i + 1) = o + W
      BY <1>3, WordOrder
    <3>2. Leaving(i + 1) = Count(a, W * (i + 1), W * (i + 1) + cnt)
      BY <1>4, <1>8, <2>1
    <3> QED
      BY <2>1, <3>1, <3>2
  <2>2. CASE i + 1 \notin Index
    <3>1. i + 1 = WordCnt
      BY <1>4, <2>2, WordSizes DEF Index
    <3>2. o + W = m
      BY <1>2, <1>3, <3>1, WordOrder
    <3>3. Among(a, o + W, o + W + cnt) = {}
      BY <1>2, <3>2, WordSizes DEF Among
    <3> QED
      BY <2>2, <3>3, FS_EmptySet DEF Count
  <2> QED
    BY <2>1, <2>2
<1>10. PICK first \in Nat : first = W - x /\ W - first = x
  BY <1>4
<1>11. PICK next \in Int : next = cnt - first
  BY <1>4
<1> DEFINE filled == count_set_bits(Imported(Shr(ws[w + 1], next), first))
           taken == count_set_bits(ws[w] \cap InWord(w, begin, begin + cnt))
           spills == x + cnt > W
<1>12. PICK g : g = RemoveGain(ws, begin, cnt)[i]
  OBVIOUS
<1>13. g = IF i < w THEN 0
           ELSE IF spills /\ i = w THEN filled - count_set_bits(Shr(ws[w], W - first))
           ELSE IF spills /\ i = w + 1
             THEN Entering(i) - filled - count_set_bits(Shl(ws[i], W - next))
           ELSE IF i = w THEN Entering(i) - taken
           ELSE Entering(i) - Leaving(i)
  BY <1>1, <1>10, <1>11, <1>12, Zenon DEF RemoveGain
<1>14. spills => w + 1 \in Index /\ W * (w + 1) = v + W /\ next \in 1 .. cnt /\ next + first = cnt
  <2> SUFFICES ASSUME spills
               PROVE  w + 1 \in Index /\ W * (w + 1) = v + W /\ next \in 1 .. cnt
                      /\ next + first = cnt
    OBVIOUS
  <2>1. W * (w + 1) = v + W
    BY <1>3, WordOrder
  <2>2. w + 1 \in Index
    <3>1. CASE w + 1 = WordCnt
      <4>1. v + W = m
        BY <1>2, <2>1, <3>1
      <4> QED
        BY <1>4, <4>1
    <3>2. CASE w + 1 # WordCnt
      BY <1>4, <3>2, WordSizes DEF Index
    <3> QED
      BY <3>1, <3>2
  <2>3. next \in 1 .. cnt /\ next + first = cnt
    BY <1>4, <1>10, <1>11
  <2> QED
    BY <2>1, <2>2, <2>3
<1>15. spills => filled = Count(a, v + W + next, v + W + cnt)
  <2> SUFFICES ASSUME spills PROVE filled = Count(a, v + W + next, v + W + cnt)
    OBVIOUS
  <2>1. ws[w + 1] \in Word /\ next \in Nat /\ first \in Nat /\ first <= W /\ w + 1 \in Index
    BY <1>4, <1>10, <1>14 DEF Holds
  <2>2. PICK y \in Word : y = Shr(ws[w + 1], next)
    BY <2>1, Shifts
  <2>3. \A z \in Place : z \in y <=> z + next \in ws[w + 1]
    BY <2>1, <2>2, Shifts
  <2>4. PICK r \in Word : r = y \cap Ones(first + 1)
    BY DEF Word
  <2>5. \A z \in Place : z \in Imported(y, first) <=> z - (W - first) \in r
    <3>1. W - first \in Nat
      BY <1>4, <2>1
    <3> QED
      BY <2>4, <3>1, Shifts DEF Imported
  <2>6. Imported(y, first) \subseteq Place
    BY DEF Imported, Shl, Place
  <2> DEFINE d == next - (W - first)
  <2>7. ASSUME NEW z \in Imported(y, first)
        PROVE  z \in Int /\ next <= z + d /\ z + d < cnt /\ z + d \in ws[w + 1]
    <3>1. z \in Int /\ 0 <= z /\ z < W
      BY <1>4, <2>6 DEF Place
    <3>2. z - (W - first) \in y /\ z - (W - first) \in 0 .. first
      <4>1. z - (W - first) \in r
        BY <2>5, <2>6
      <4>2. Ones(first + 1) = 0 .. first
        BY <2>1 DEF Ones
      <4> QED
        BY <2>4, <4>1, <4>2
    <3>3. z - (W - first) \in Place
      BY <2>2, <3>2 DEF Word, Place
    <3>4. z - (W - first) + next \in ws[w + 1]
      BY <2>3, <3>2, <3>3
    <3>5. z - (W - first) + next = z + d
      BY <1>4, <2>1, <3>1
    <3> QED
      BY <1>4, <1>14, <2>1, <3>1, <3>2, <3>4, <3>5
  <2>8. ASSUME NEW z \in ws[w + 1], next <= z, z < cnt PROVE z - d \in Imported(y, first)
    <3>1. z \in Int /\ 0 <= z /\ z < W
      BY <1>4, <2>1 DEF Word
    <3>2. /\ z - next \in Place /\ z - next + next = z /\ z - next \in 0 .. first
          /\ z - d \in Place /\ z - d - (W - first) = z - next
      BY <1>4, <1>14, <2>1, <2>8, <3>1 DEF Place
    <3>3. z - next \in y
      BY <2>3, <3>2
    <3>4. z - next \in Ones(first + 1)
      BY <2>1, <3>2 DEF Ones
    <3>5. z - d - (W - first) \in r
      BY <2>4, <3>2, <3>3, <3>4
    <3> QED
      BY <2>5, <3>2, <3>5
  <2>9. next \in 0 .. W /\ cnt \in 0 .. W /\ d \in Int
    BY <1>4, <1>14, <2>1
  <2>10. Cardinality(Imported(y, first)) = Count(a, W * (w + 1) + next, W * (w + 1) + cnt)
    <3> HIDE DEF d
    <3> QED
      BY <2>1, <2>7, <2>8, <2>9, CountInWord
  <2> QED
    BY <1>14, <2>2, <2>10 DEF count_set_bits
<1>16. x + cnt <= W => taken = Count(a, begin, begin + cnt)
  <2> SUFFICES ASSUME x + cnt <= W PROVE taken = Count(a, begin, begin + cnt)
    OBVIOUS
  <2> DEFINE X == ws[w] \cap InWord(w, begin, begin + cnt)
  <2>1. ws[w] \subseteq Place
    BY DEF Holds, Word, Place
  <2>2. \A z \in Place : z \in InWord(w, begin, begin + cnt) <=> x <= z /\ z < x + cnt
    <3>1. \A z \in Place : z \in InWord(w, begin, begin + cnt)
                             <=> begin <= v + z /\ v + z < begin + cnt
      BY <1>3 DEF InWord, Place
    <3> QED
      BY <1>4, <3>1 DEF Place
  <2>3. \A z \in X : z \in Int /\ x <= z + 0 /\ z + 0 < x + cnt /\ z + 0 \in ws[w]
    <3>1. ASSUME NEW z \in X PROVE z \in Place /\ z \in ws[w] /\ x <= z /\ z < x + cnt
      BY <2>1, <2>2
    <3> QED
      BY <1>4, <3>1 DEF Place
  <2>4. \A z \in ws[w] : x <= z /\ z < x + cnt => z - 0 \in X
    <3>1. ASSUME NEW z \in ws[w], x <= z, z < x + cnt PROVE z \in X /\ z - 0 = z
      BY <1>4, <2>1, <2>2, <3>1 DEF Place
    <3> QED
      BY <3>1
  <2>5. x \in 0 .. W /\ x + cnt \in 0 .. W /\ 0 \in Int
    BY <1>4
  <2>6. Cardinality(X) = Count(a, W * w + x, W * w + (x + cnt))
    <3> HIDE DEF X
    <3> QED
      BY <2>3, <2>4, <2>5, CountInWord
  <2>7. v + (x + cnt) = begin + cnt
    BY <1>4
  <2> QED
    BY <1>3, <1>4, <2>6, <2>7 DEF count_set_bits
<1>17. PICK enter : enter = Entering(i) /\ enter = Count(a, o + W, o + W + cnt)
  BY <1>9
<1>18. CASE i = w /\ spills
  <2>1. g = filled - count_set_bits(Shr(ws[w], W - first))
    BY <1>4, <1>13, <1>18
  <2>2. /\ o = v /\ o <= begin /\ begin <= o + W /\ o + W <= begin + cnt
        /\ begin + cnt = o + W + next /\ begin + cnt <= o + W + cnt /\ v + W + next \in Nat
    BY <1>3, <1>4, <1>10, <1>11, <1>18
  <2>3. count_set_bits(Shr(ws[w], W - first)) = Count(a, begin, o + W)
    <3>1. x \in 0 .. W
      BY <1>4
    <3>2. count_set_bits(Shr(ws[w], x)) = Count(a, W * w + x, W * w + W)
      BY <3>1, ShiftCounts
    <3> QED
      BY <1>3, <1>4, <1>10, <2>2, <3>2
  <2>4. filled = Count(a, begin + cnt, o + W + cnt)
    BY <1>15, <1>18, <2>2
  <2>5. /\ Count(b, o, o + W) = Count(b, o, begin) + Count(b, begin, o + W)
        /\ Count(a, o, o + W) = Count(a, o, begin) + Count(a, begin, o + W)
    BY <1>4, <1>6, <2>2
  <2>6. Count(b, o, begin) = Count(a, o, begin)
    BY <1>4, <1>5, <2>2
  <2>7. Count(b, begin, o + W) = Count(a, begin + cnt, o + W + cnt)
    BY <1>4, <1>5, <2>2
  <2>8. g = Count(b, o, o + W) - Count(a, o, o + W)
    BY <1>7, <2>1, <2>3, <2>4, <2>5, <2>6, <2>7
  <2> QED
    BY <1>3, <1>12, <2>8 DEF b
<1>19. CASE i = w + 1 /\ spills
  <2>1. g = enter - filled - count_set_bits(Shl(ws[i], W - next))
    BY <1>4, <1>13, <1>17, <1>19
  <2>2. /\ o = v + W /\ next \in Nat /\ next <= cnt /\ next \in 0 .. W
        /\ begin <= o /\ o <= o + next /\ o + next <= o + cnt
        /\ o + cnt <= o + W /\ o + W <= o + W + cnt /\ o <= o + W /\ o + next <= o + W
    BY <1>3, <1>4, <1>14, <1>19
  <2>3. filled = Count(a, o + next, o + cnt)
    BY <1>15, <1>19, <2>2
  <2>4. count_set_bits(Shl(ws[i], W - next)) = Count(a, o, o + next)
    BY <1>3, <1>8, <2>2
  <2>5. Count(b, o, o + W) = Count(a, o + cnt, o + W + cnt)
    BY <1>4, <1>5, <2>2
  <2>6. Count(a, o + cnt, o + W + cnt) = Count(a, o + cnt, o + W) + Count(a, o + W, o + W + cnt)
    BY <1>4, <1>6, <2>2
  <2>7. Count(a, o, o + W) = Count(a, o, o + next) + Count(a, o + next, o + W)
    BY <1>4, <1>6, <2>2
  <2>8. Count(a, o + next, o + W) = Count(a, o + next, o + cnt) + Count(a, o + cnt, o + W)
    BY <1>4, <1>6, <2>2
  <2>9. g = Count(b, o, o + W) - Count(a, o, o + W)
    BY <1>7, <1>17, <2>1, <2>3, <2>4, <2>5, <2>6, <2>7, <2>8
  <2> QED
    BY <1>3, <1>12, <2>9 DEF b
<1>20. CASE i = w /\ ~spills
  <2>1. g = enter - taken
    BY <1>4, <1>13, <1>17, <1>20
  <2>2. /\ o = v /\ o <= begin /\ begin <= begin + cnt /\ begin + cnt <= o + W
        /\ o + W <= o + W + cnt /\ x + cnt <= W /\ begin <= o + W
    BY <1>3, <1>4, <1>20
  <2>3. /\ Count(b, o, o + W) = Count(b, o, begin) + Count(b, begin, o + W)
        /\ Count(a, o, o + W) = Count(a, o, begin) + Count(a, begin, o + W)
    BY <1>4, <1>6, <2>2
  <2>4. Count(b, o, begin) = Count(a, o, begin)
    BY <1>4, <1>5, <2>2
  <2>5. Count(b, begin, o + W) = Count(a, begin + cnt, o + W + cnt)
    BY <1>4, <1>5, <2>2
  <2>6. Count(a, begin + cnt, o + W + cnt)
          = Count(a, begin + cnt, o + W) + Count(a, o + W, o + W + cnt)
    BY <1>4, <1>6, <2>2
  <2>7. Count(a, begin, o + W) = Count(a, begin, begin + cnt) + Count(a, begin + cnt, o + W)
    BY <1>4, <1>6, <2>2
  <2>8. taken = Count(a, begin, begin + cnt)
    BY <1>16, <2>2
  <2>9. g = Count(b, o, o + W) - Count(a, o, o + W)
    BY <1>7, <1>17, <2>1, <2>3, <2>4, <2>5, <2>6, <2>7, <2>8
  <2> QED
    BY <1>3, <1>12, <2>9 DEF b
<1>21. CASE w < i /\ ~(i = w + 1 /\ spills)
  <2>1. g = enter - Leaving(i)
    BY <1>4, <1>13, <1>17, <1>21
  <2>2. begin <= o
    <3>1. v + W <= o
      BY <1>3, <1>21, WordOrder
    <3> QED
      BY <1>4, <3>1
  <2>3. o <= o + cnt /\ o + cnt <= o + W /\ o + W <= o + W + cnt /\ cnt \in 0 .. W
    BY <1>4
  <2>4. Leaving(i) = Count(a, o, o + cnt)
    BY <1>3, <1>8, <2>3
  <2>5. Count(b, o, o + W) = Count(a, o + cnt, o + W + cnt)
    BY <1>4, <1>5, <2>2
  <2>6. Count(a, o + cnt, o + W + cnt) = Count(a, o + cnt, o + W) + Count(a, o + W, o + W + cnt)
    BY <1>4, <1>6, <2>3
  <2>7. Count(a, o, o + W) = Count(a, o, o + cnt) + Count(a, o + cnt, o + W)
    BY <1>4, <1>6, <2>3
  <2>8. g = Count(b, o, o + W) - Count(a, o, o + W)
    BY <1>7, <1>17, <2>1, <2>4, <2>5, <2>6, <2>7
  <2> QED
    BY <1>3, <1>12, <2>8 DEF b
<1> QED
  BY <1>4, <1>18, <1>19, <1>20, <1>21

-----------------------------------------------------------------------------
\* The rank table: an entry counts the 1-bits before its block.
Counted == Holds(words, bits) /\ RankLutIsExact

\* What lies before the word that a change begins in stays.
LEMMA BeforeStays ==
  ASSUME NEW a, DOMAIN a = Bits, NEW begin \in Bits, NEW cnt \in Nat, NEW val,
         NEW k \in Bits, k < W * (begin \div W)
  PROVE  InsertBits(a, begin, cnt, val)[k] = a[k] /\ RemoveBits(a, begin, cnt)[k] = a[k]
<1>1. W \in Nat /\ W > 0 /\ begin \in Nat /\ k \in Nat
  BY WordSizes
<1>2. k < begin
  <2>1. W * (begin \div W) \in Nat /\ W * (begin \div W) <= begin
    BY <1>1, BlockOf
  <2> QED
    BY <1>1, <2>1
<1> QED
  BY <1>2 DEF InsertBits, RemoveBits

\* The rank table is exact after an insertion.
LEMMA InsertCounted ==
  ASSUME Counted, NEW begin_idx \in Bits, NEW cnt \in 1 .. W - 1, NEW val \in BOOLEAN,
         Insert(begin_idx, cnt, val)
  PROVE  RankLutIsExact'
<1>1. PICK w \in Index : w = begin_idx \div W
  BY BitHasPlace
<1>2. Holds(words, bits) /\ rank_lut = init_inplace(bits) /\ DOMAIN bits = Bits /\ cnt \in Nat
  BY WordSizes DEF Counted, RankLutIsExact, Holds
<1> DEFINE b == InsertBits(bits, begin_idx, cnt, val)
           gain == InsertGain(words, begin_idx, cnt, val)
<1>3. \A i \in Index : w <= i =>
        gain[i] = Count(b, W * i, W * i + W) - Count(bits, W * i, W * i + W)
  BY <1>1, <1>2, InsertGainIsExact
<1>4. \A k \in Bits : k < W * w => b[k] = bits[k]
  BY <1>1, <1>2, BeforeStays
<1>5. LutAfter(init_inplace(bits), w, gain) = init_inplace(b)
  <2> HIDE DEF b, gain
  <2> QED
    BY <1>3, <1>4, LutHolds
<1> QED
  BY <1>1, <1>2, <1>5 DEF Insert, RankLutIsExact

\* The rank table is exact after a removal.
LEMMA RemoveCounted ==
  ASSUME Counted, NEW begin_idx \in Bits, NEW cnt \in 1 .. W - 1, Remove(begin_idx, cnt)
  PROVE  RankLutIsExact'
<1>1. PICK w \in Index : w = begin_idx \div W
  BY BitHasPlace
<1>2. /\ Holds(words, bits) /\ rank_lut = init_inplace(bits) /\ DOMAIN bits = Bits /\ cnt \in Nat
      /\ begin_idx + cnt <= W * WordCnt
  BY WordSizes DEF Counted, RankLutIsExact, Holds, Remove
<1> DEFINE b == RemoveBits(bits, begin_idx, cnt)
           gain == RemoveGain(words, begin_idx, cnt)
<1>3. \A i \in Index : w <= i =>
        gain[i] = Count(b, W * i, W * i + W) - Count(bits, W * i, W * i + W)
  BY <1>1, <1>2, RemoveGainIsExact
<1>4. \A k \in Bits : k < W * w => b[k] = bits[k]
  BY <1>1, <1>2, BeforeStays
<1>5. LutAfter(init_inplace(bits), w, gain) = init_inplace(b)
  <2> HIDE DEF b, gain
  <2> QED
    BY <1>3, <1>4, LutHolds
<1> QED
  BY <1>1, <1>2, <1>5 DEF Remove, RankLutIsExact

\* A node that is made inner, or a leaf, is one bit more, or less, in its word.
LEMMA SetNodeCounted ==
  ASSUME Counted, NEW i \in Bits, NEW val \in BOOLEAN, SetNode(i, val)
  PROVE  RankLutIsExact'
<1>1. PICK w \in Index, x \in Place : i = W * w + x /\ w = i \div W
  BY BitHasPlace
<1>2. /\ Holds(words, bits) /\ rank_lut = init_inplace(bits) /\ bits \in [Bits -> BOOLEAN]
      /\ bits[i] # val
  BY DEF Counted, RankLutIsExact, Holds, SetNode
<1>3. PICK v \in Nat : v = W * w
  BY WordOrder
<1>4. W \in Nat /\ i \in Nat /\ v <= i /\ i < v + W /\ w \in Nat /\ i = v + x
  BY <1>1, <1>3, WordSizes DEF Place, Index
<1> DEFINE b == SetBit(bits, i, val)
           gain == [k \in Index |-> IF k # w THEN 0 ELSE IF val THEN 1 ELSE -1]
<1>5. \A k \in Bits : b[k] = IF k = i THEN val ELSE bits[k]
  BY <1>2 DEF SetBit
<1> HIDE DEF b
<1>6. ASSUME NEW k \in Index, w <= k
      PROVE  gain[k] = Count(b, W * k, W * k + W) - Count(bits, W * k, W * k + W)
  <2>1. PICK o \in Nat : o = W * k
    BY WordOrder
  <2>2. Count(b, o, o + W) \in Nat /\ Count(bits, o, o + W) \in Nat
    BY CountType
  <2>3. CASE k # w
    <3>1. v + W <= o
      BY <1>3, <1>4, <1>6, <2>1, <2>3, WordOrder DEF Index
    <3>2. \A j \in Bits : o <= j => b[j] = bits[j]
      <4>1. \A j \in Bits : o <= j => j # i
        BY <1>4, <3>1, WordSizes
      <4> QED
        BY <1>5, <4>1
    <3>3. Among(b, o, o + W) = Among(bits, o, o + W)
      BY <3>2, Zenon DEF Among
    <3> QED
      BY <2>1, <2>2, <2>3, <3>3 DEF Count
  <2>4. CASE k = w
    <3>1. o = v
      BY <1>3, <2>1, <2>4
    <3> DEFINE rest == {j \in Among(bits, o, o + W) : j # i}
    <3>2. IsFiniteSet(Among(bits, o, o + W)) /\ IsFiniteSet(Among(b, o, o + W))
      BY CountType
    <3>3. CASE val
      <4>1. ~bits[i] /\ b[i]
        BY <1>2, <1>5, <3>3
      <4>2. i \notin Among(bits, o, o + W) /\ i \in Among(b, o, o + W)
        BY <1>4, <3>1, <4>1 DEF Among
      <4>3. \A j \in Among(b, o, o + W) : j \in Among(bits, o, o + W) \/ j = i
        BY <1>5 DEF Among
      <4>4. \A j \in Among(bits, o, o + W) : j \in Among(b, o, o + W)
        BY <1>5, <4>2 DEF Among
      <4>5. Among(b, o, o + W) = Among(bits, o, o + W) \cup {i}
        BY <4>2, <4>3, <4>4
      <4>6. Count(b, o, o + W) = Count(bits, o, o + W) + 1
        BY <3>2, <4>2, <4>5, FS_AddElement DEF Count
      <4> QED
        BY <2>1, <2>2, <2>4, <3>3, <4>6
    <3>4. CASE ~val
      <4>1. bits[i] /\ ~b[i]
        BY <1>2, <1>5, <3>4
      <4>2. i \in Among(bits, o, o + W) /\ i \notin Among(b, o, o + W)
        BY <1>4, <3>1, <4>1 DEF Among
      <4>3. \A j \in Among(b, o, o + W) : j \in Among(bits, o, o + W)
        BY <1>5, <4>2 DEF Among
      <4>4. \A j \in Among(bits, o, o + W) : j \in Among(b, o, o + W) \/ j = i
        BY <1>5 DEF Among
      <4>5. Among(bits, o, o + W) = Among(b, o, o + W) \cup {i}
        BY <4>2, <4>3, <4>4
      <4>6. Count(bits, o, o + W) = Count(b, o, o + W) + 1
        BY <3>2, <4>2, <4>5, FS_AddElement DEF Count
      <4> QED
        BY <2>1, <2>2, <2>4, <3>4, <4>6
    <3> QED
      BY <3>3, <3>4
  <2> QED
    BY <2>3, <2>4
<1>7. \A k \in Bits : k < W * w => b[k] = bits[k]
  <2>1. \A k \in Bits : k < W * w => k # i
    BY <1>3, <1>4, WordSizes
  <2> QED
    BY <1>5, <2>1
<1>8. LutAfter(init_inplace(bits), w, gain) = init_inplace(b)
  <2> HIDE DEF gain
  <2> QED
    BY <1>6, <1>7, LutHolds
<1>9. b = bits' /\ rank_lut' = LutAfter(rank_lut, w, gain)
  BY <1>1 DEF SetNode, b
<1> QED
  BY <1>2, <1>8, <1>9 DEF RankLutIsExact

\* Whole words that are put in front count W each, and the words behind them
\* what they counted before they moved.
LEMMA PrependCounted ==
  ASSUME Counted, NEW explicit \in 0 .. WordCnt, NEW cnt \in 1 .. WordCnt,
         Prepend(explicit, cnt), Holds(words', bits')
  PROVE  RankLutIsExact'
<1>1. /\ W \in Nat /\ W > 0 /\ WordCnt \in Nat /\ WordCnt > 0 /\ cnt \in Nat /\ cnt > 0
      /\ explicit \in Nat /\ explicit + cnt <= WordCnt /\ 0 \in Index
  BY WordSizes DEF Prepend, Index
<1>2. /\ Holds(words, bits) /\ rank_lut = init_inplace(bits)
      /\ \A i \in explicit .. WordCnt - 1 : words[i] = {}
  BY DEF Counted, RankLutIsExact, Prepend
<1> DEFINE Source(i) == IF i - cnt \in 0 .. explicit - 1 THEN words[i - cnt]
                        ELSE IF i < explicit THEN {} ELSE words[i]
           gain == [i \in Index |->
                      (IF i - cnt \in 0 .. explicit - 1 THEN count_set_bits(words[i - cnt]) ELSE 0)
                      - (IF i < explicit THEN count_set_bits(words[i]) ELSE 0)
                      + (IF i < cnt THEN W ELSE 0)]
<1>3. /\ words' = [i \in Index |-> IF i < cnt THEN Ones(W) ELSE Source(i)]
      /\ rank_lut' = LutAfter(rank_lut, 0, gain)
  BY DEF Prepend
<1>4. ASSUME NEW i \in Index
      PROVE  /\ count_set_bits(words'[i]) = Count(bits', W * i, W * i + W)
             /\ count_set_bits(words[i]) = Count(bits, W * i, W * i + W)
             /\ count_set_bits(words'[i]) \in Nat /\ count_set_bits(words[i]) \in Nat
  <2>1. 0 \in 0 .. W
    BY <1>1
  <2> QED
    BY <1>2, <2>1, ShiftCounts, CountType
<1>5. count_set_bits(Ones(W)) = W /\ count_set_bits({}) = 0
  <2>1. 0 \in Int /\ W - 1 \in Int
    BY <1>1
  <2>2. Cardinality(0 .. W - 1) = IF 0 > W - 1 THEN 0 ELSE W - 1 - 0 + 1
    BY <2>1, FS_Interval
  <2> QED
    BY <1>1, <2>2, FS_EmptySet DEF count_set_bits, Ones
<1>6. ASSUME NEW i \in Index
      PROVE  gain[i] = count_set_bits(words'[i]) - count_set_bits(words[i])
  <2>1. i \in Nat /\ i < WordCnt
    BY <1>1 DEF Index
  <2>2. PICK lost \in Nat : /\ lost = IF i < explicit THEN count_set_bits(words[i]) ELSE 0
                            /\ lost = count_set_bits(words[i])
    <3>1. ~(i < explicit) => words[i] = {}
      BY <1>1, <1>2, <2>1
    <3> QED
      BY <1>4, <1>5, <3>1
  <2>3. PICK moved \in Nat :
          moved = IF i - cnt \in 0 .. explicit - 1 THEN count_set_bits(words[i - cnt]) ELSE 0
    <3>1. i - cnt \in 0 .. explicit - 1 => i - cnt \in Index
      BY <1>1 DEF Index
    <3> QED
      BY <1>4, <3>1
  <2>4. gain[i] = moved - lost + (IF i < cnt THEN W ELSE 0)
    BY <2>2, <2>3
  <2>5. CASE i < cnt
    <3>1. ~(i - cnt \in 0 .. explicit - 1) /\ words'[i] = Ones(W)
      BY <1>1, <1>3, <2>1, <2>5
    <3>2. gain[i] = 0 - lost + W
      BY <2>3, <2>4, <2>5, <3>1
    <3>3. gain[i] = W - lost
      BY <1>1, <3>2
    <3> QED
      BY <1>5, <2>2, <3>1, <3>3
  <2>6. CASE ~(i < cnt)
    <3>1. words'[i] = Source(i)
      BY <1>3, <2>6
    <3>2. gain[i] = moved - lost
      BY <2>4, <2>6
    <3>3. count_set_bits(words'[i]) = moved
      <4>1. ~(i < explicit) => words[i] = {}
        BY <1>1, <1>2, <2>1
      <4>2. CASE i - cnt \in 0 .. explicit - 1
        BY <2>3, <3>1, <4>2
      <4>3. CASE ~(i - cnt \in 0 .. explicit - 1)
        <5>1. words'[i] = {}
          BY <3>1, <4>1, <4>3
        <5> QED
          BY <1>5, <2>3, <4>3, <5>1
      <4> QED
        BY <4>2, <4>3
    <3> QED
      BY <2>2, <3>2, <3>3
  <2> QED
    BY <2>5, <2>6
<1>7. \A i \in Index : 0 <= i =>
        gain[i] = Count(bits', W * i, W * i + W) - Count(bits, W * i, W * i + W)
  <2> HIDE DEF gain
  <2> QED
    BY <1>4, <1>6
<1>8. \A k \in Bits : k < W * 0 => bits'[k] = bits[k]
  BY <1>1, WordSizes
<1>9. LutAfter(init_inplace(bits), 0, gain) = init_inplace(bits')
  <2> HIDE DEF gain
  <2> QED
    BY <1>1, <1>7, <1>8, LutHolds
<1> QED
  BY <1>2, <1>3, <1>9 DEF RankLutIsExact

\* Words and table, step by step
LEMMA CountedHolds == Spec => []Counted
<1>1. Init => Counted
  BY InitHolds DEF Init, Counted, RankLutIsExact
<1>2. Counted /\ [Next]_vars => Counted'
  <2> SUFFICES ASSUME Counted, [Next]_vars PROVE Counted'
    OBVIOUS
  <2>1. Holds(words, bits)'
    BY NextHolds DEF Counted
  <2>2. Holds(words', bits')
    BY <2>1 DEF Holds
  <2>3. CASE UNCHANGED vars
    BY <2>3 DEF vars, Counted, RankLutIsExact, Holds
  <2>4. CASE Next
    <3>1. RankLutIsExact'
      BY <2>2, <2>4, InsertCounted, RemoveCounted, SetNodeCounted, PrependCounted DEF Next
    <3> QED
      BY <2>1, <3>1 DEF Counted
  <2> QED
    BY <2>3, <2>4
<1> QED
  BY <1>1, <1>2, PTL DEF Spec

\* The rank table is never recomputed, and stays that of the words: the deltas of
\* every insertion, removal, flip and word move are what the blocks gain.
THEOREM RankLutExact == Spec => []RankLutIsExact
<1>1. Counted => RankLutIsExact
  BY DEF Counted
<1> QED
  BY <1>1, CountedHolds, PTL

\* Type correctness: no entry of the rank table counts more than there are bits.
THEOREM TypeCorrect == Spec => []TypeOK
<1>1. Counted => TypeOK
  <2> SUFFICES ASSUME Counted PROVE TypeOK
    OBVIOUS
  <2>1. \A k : Before(bits, k) \in 0 .. W * WordCnt
    <3>1. ASSUME NEW k PROVE Before(bits, k) = Count(bits, 0, k)
      <4>1. \A i \in Bits : 0 <= i
        BY WordSizes
      <4> QED
        BY <4>1 DEF Before, Count, Among
    <3> QED
      BY <3>1, CountType
  <2>2. rank_lut \in [0 .. BlockCnt -> 0 .. W * WordCnt]
    BY <2>1 DEF Counted, RankLutIsExact, init_inplace
  <2> QED
    BY <2>2 DEF Counted, Holds, TypeOK
<1> QED
  BY <1>1, CountedHolds, PTL
=============================================================================
