------------------------------ MODULE TebWords ------------------------------
(***************************************************************************)
(* How teb_flat moves bits: the words of T with their rank table, and the  *)
(* words of L, under the word-wise insertions and removals of updates and  *)
(* prunes.  A word is the set of the positions of its 1-bits.  Beside the  *)
(* words runs the bit array they are meant to hold.                        *)
(*                                                                         *)
(* An insertion or removal of the code shifts every word behind the place  *)
(* it starts at, and adds to the rank table what enters and leaves each    *)
(* block.  The steps are those without the faults of BitArray.             *)
(***************************************************************************)
EXTENDS BitArray, Functions

CONSTANTS
  WordCnt,        \* the words of the array
  WordsPerBlock   \* the words of a block of the rank table (8 in the code)

ASSUME TebWordsAssumption == WordCnt \in Nat \ {0} /\ WordsPerBlock \in Nat \ {0}

Index == 0 .. WordCnt - 1
Bits  == Array(W * WordCnt)
Word  == SUBSET (0 .. W - 1)

BlockCnt == (WordCnt + WordsPerBlock - 1) \div WordsPerBlock

VARIABLES
  words,          \* tree_ptr_ (or the labels)
  rank_lut,       \* rank_lut_ptr_: the 1-bits before each block, and of all
  bits            \* the bit array words stands for

vars == <<words, rank_lut, bits>>

\* Words as numbers: shifts drop what leaves the word, (1 << k) - 1 is Ones(k)
Shl(w, k) == {b + k : b \in w} \cap (0 .. W - 1)
Shr(w, k) == {b - k : b \in w} \cap (0 .. W - 1)
Ones(k)   == 0 .. k - 1
count_set_bits(w) == Cardinality(w)

\* Mutant of Imported: the mask is a bit short.
ImportedMaskShort(w, k) == Shl(w \cap Ones(k - 1), W - k)

\* The low k bits of a word as the high bits of the word before; the mask
\* has a bit more, which the shift drops.
Imported(w, k) == Shl(w \cap Ones(k + 1), W - k)

InWord(i, begin, end) == {b \in 0 .. W - 1 : begin <= W * i + b /\ W * i + b < end}

SetBits(ws, begin, end, val) ==
  [i \in Index |-> IF val THEN ws[i] \cup InWord(i, begin, end) ELSE ws[i] \ InWord(i, begin, end)]

Before(a, k) == Cardinality({i \in Bits : i < k /\ a[i]})

\* rank1_logic_surf::init_inplace
init_inplace(a) == [b \in 0 .. BlockCnt |-> Before(a, W * WordsPerBlock * b)]

Block(i) == i \div WordsPerBlock

\* The table after word i has gained gain[i] 1-bits: from the block behind
\* the one of word_idx on, with the sum of the gains up to there
LutAfter(lut, word_idx, gain) ==
  [b \in 0 .. BlockCnt |->
     IF b <= Block(word_idx) THEN lut[b]
     ELSE lut[b] + SumFunctionOnSet(gain, {i \in Index : word_idx <= i /\ Block(i) < b})]

-----------------------------------------------------------------------------
\* insert_into_tree, insert_into_labels: what word i takes from the word
\* before it, and what is left of word_idx and the next
Inserted(ws, begin_idx, cnt, val) ==
  LET w       == begin_idx \div W
      bit_idx == begin_idx % W
      first   == W - bit_idx
      Moved(i) == Shl(ws[i], cnt) \cup Shr(ws[i - 1], W - cnt)
      spilled == [i \in Index |->
                    IF i <= w THEN ws[i]
                    ELSE IF i = w + 1
                      THEN Shl(Shl(ws[i], first) \cup Shr(ws[w], W - first), cnt - first)
                    ELSE Moved(i)]
      within  == [i \in Index |->
                    IF i < w THEN ws[i]
                    ELSE IF i = w
                      THEN Shl(ws[w] \ Ones(bit_idx), cnt) \cup (ws[w] \cap Ones(bit_idx))
                    ELSE Moved(i)]
  IN  SetBits(IF bit_idx + cnt >= W THEN spilled ELSE within, begin_idx, begin_idx + cnt, val)

\* Mutant of InsertGain: what leaves the second word is not taken off.
InsertGainKeepsExported(ws, begin_idx, cnt, val) ==
  LET w == begin_idx \div W
      Exported(i) == count_set_bits(Shr(ws[i], W - cnt))
  IN  [i \in Index |-> IF i < w THEN 0
                       ELSE IF i = w THEN (IF val THEN cnt ELSE 0) - Exported(i)
                       ELSE Exported(i - 1)]

\* ... and the 1-bits each word of T gains by it
InsertGain(ws, begin_idx, cnt, val) ==
  LET w       == begin_idx \div W
      bit_idx == begin_idx % W
      first   == W - bit_idx
      Exported(i) == count_set_bits(Shr(ws[i], W - cnt))
      moved   == count_set_bits(Shr(ws[w], W - first))
      If(val_cnt) == IF val THEN val_cnt ELSE 0
  IN  [i \in Index |->
         IF i < w THEN 0
         ELSE IF bit_idx + cnt >= W /\ i = w THEN If(first) - moved
         ELSE IF bit_idx + cnt >= W /\ i = w + 1 THEN If(cnt - first) + moved - Exported(i)
         ELSE IF i = w THEN If(cnt) - Exported(i)
         ELSE Exported(i - 1) - Exported(i)]

-----------------------------------------------------------------------------
\* remove_from_tree, remove_from_labels
Removed(ws, begin_idx, cnt) ==
  LET w       == begin_idx \div W
      bit_idx == begin_idx % W
      first   == W - bit_idx
      next    == cnt - first
      cleared == SetBits(ws, begin_idx, begin_idx + cnt, FALSE)
      \* word i, itself shifted already, takes the low bits of the next
      Filled(i, x) == IF i + 1 \in Index THEN x \cup Imported(cleared[i + 1], cnt) ELSE x
      second  == Shr(cleared[w + 1], next)
      closed  == IF bit_idx + cnt = W THEN cleared[w]
                 ELSE Shr(cleared[w] \ Ones(bit_idx + cnt), cnt)
                        \cup (cleared[w] \cap Ones(bit_idx + cnt))
  IN  [i \in Index |->
         IF i < w THEN ws[i]
         ELSE IF bit_idx + cnt > W
           THEN IF i = w THEN cleared[w] \cup Imported(second, first)
                ELSE IF i = w + 1 THEN Filled(i, Shr(second, first))
                ELSE Filled(i, Shr(cleared[i], cnt))
         ELSE IF i = w THEN Filled(i, closed)
         ELSE Filled(i, Shr(cleared[i], cnt))]

\* Mutant of RemoveGain: the bits removed are not taken off.
RemoveGainKeepsTaken(ws, begin_idx, cnt) ==
  LET w == begin_idx \div W
      Leaving(i)  == count_set_bits(Shl(ws[i], W - cnt))
      Entering(i) == IF i + 1 \in Index THEN Leaving(i + 1) ELSE 0
  IN  [i \in Index |-> IF i < w THEN 0
                       ELSE IF i = w THEN Entering(i)
                       ELSE Entering(i) - Leaving(i)]

RemoveGain(ws, begin_idx, cnt) ==
  LET w       == begin_idx \div W
      bit_idx == begin_idx % W
      first   == W - bit_idx
      next    == cnt - first
      Leaving(i)  == count_set_bits(Shl(ws[i], W - cnt))
      Entering(i) == IF i + 1 \in Index THEN Leaving(i + 1) ELSE 0
      filled  == count_set_bits(Imported(Shr(ws[w + 1], next), first))
      taken   == count_set_bits(ws[w] \cap InWord(w, begin_idx, begin_idx + cnt))
      spills  == bit_idx + cnt > W
  IN  [i \in Index |->
         IF i < w THEN 0
         ELSE IF spills /\ i = w
           THEN filled - count_set_bits(Shr(ws[w], W - first))
         ELSE IF spills /\ i = w + 1
           THEN Entering(i) - filled - count_set_bits(Shl(ws[i], W - next))
         ELSE IF i = w THEN Entering(i) - taken
         ELSE Entering(i) - Leaving(i)]

-----------------------------------------------------------------------------
Init ==
  /\ bits = [k \in Bits |-> FALSE]
  /\ words = [i \in Index |-> {}]
  /\ rank_lut = init_inplace(bits)

\* The callers insert two bits at most, but for those in front of all others.
Insert(begin_idx, cnt, val) ==
  /\ InsertFaults(bits, begin_idx, cnt) = {}
  /\ begin_idx = 0 \/ cnt <= 2
  /\ words' = Inserted(words, begin_idx, cnt, val)
  /\ rank_lut' = LutAfter(rank_lut, begin_idx \div W, InsertGain(words, begin_idx, cnt, val))
  /\ bits' = InsertBits(bits, begin_idx, cnt, val)

Remove(begin_idx, cnt) ==
  /\ RemoveFaults(bits, begin_idx, cnt) = {}
  /\ begin_idx = 0 \/ cnt <= 2
  /\ begin_idx + cnt <= W * WordCnt
  /\ words' = Removed(words, begin_idx, cnt)
  /\ rank_lut' = LutAfter(rank_lut, begin_idx \div W, RemoveGain(words, begin_idx, cnt))
  /\ bits' = RemoveBits(bits, begin_idx, cnt)

\* runbreaking_update() makes a leaf an inner node, prune() the other way.
SetNode(i, val) ==
  /\ bits[i] # val
  /\ words' = SetBits(words, i, i + 1, val)
  /\ rank_lut' = LutAfter(rank_lut, i \div W,
                          [k \in Index |-> IF k # i \div W THEN 0 ELSE IF val THEN 1 ELSE -1])
  /\ bits' = SetBit(bits, i, val)

\* prepend_words_T: the first explicit words move up by cnt words, and words
\* of 1-bits take their place.
Prepend(explicit, cnt) ==
  LET Source(i) == IF i - cnt \in 0 .. explicit - 1 THEN words[i - cnt]
                   ELSE IF i < explicit THEN {} ELSE words[i]
      gain == [i \in Index |->
                 (IF i - cnt \in 0 .. explicit - 1 THEN count_set_bits(words[i - cnt]) ELSE 0)
                 - (IF i < explicit THEN count_set_bits(words[i]) ELSE 0)
                 + (IF i < cnt THEN W ELSE 0)]
  IN  /\ explicit + cnt <= WordCnt
      /\ \A i \in explicit .. WordCnt - 1 : words[i] = {}
      /\ words' = [i \in Index |-> IF i < cnt THEN Ones(W) ELSE Source(i)]
      /\ rank_lut' = LutAfter(rank_lut, 0, gain)
      /\ bits' = InsertBits(bits, 0, W * cnt, TRUE)

Next ==
  \/ \E begin_idx \in Bits, cnt \in 1 .. W - 1 :
       \/ \E val \in BOOLEAN : Insert(begin_idx, cnt, val)
       \/ Remove(begin_idx, cnt)
  \/ \E i \in Bits, val \in BOOLEAN : SetNode(i, val)
  \/ \E explicit \in 0 .. WordCnt, cnt \in 1 .. WordCnt : Prepend(explicit, cnt)

Spec == Init /\ [][Next]_vars

-----------------------------------------------------------------------------
TypeOK ==
  /\ words \in [Index -> Word]
  /\ rank_lut \in [0 .. BlockCnt -> 0 .. W * WordCnt]
  /\ bits \in [Bits -> BOOLEAN]

\* Whatever is inserted or removed, wherever the words meet, the words hold
\* the bits in their order: none is lost, doubled or left behind.
WordsHoldBits == \A k \in Bits : bits[k] <=> k % W \in words[k \div W]

\* The rank table, which is never recomputed, stays that of the words: an
\* entry counts the 1-bits before its block.
RankLutIsExact == rank_lut = init_inplace(bits)
=============================================================================
