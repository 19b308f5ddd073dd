------------------------------ MODULE Concise ------------------------------
(***************************************************************************)
(* concise: as xah, with fills that count repetitions from zero and may    *)
(* carry one dirty bit in their first block.  1-bits are appended one by   *)
(* one, the 0-bits before them with them; 0-bits at the end are only in    *)
(* the length.                                                             *)
(*                                                                         *)
(* The code asserts that a fill never counts beyond its bits and, wrongly  *)
(* for a fill before a full literal or a gap, that the last two words are  *)
(* literals; the model is that of a build without assertions, with fills   *)
(* that are never full.                                                    *)
(***************************************************************************)
EXTENDS RunWords

CONSTANT W      \* word_bitlength

payload_bit_cnt == W - 1
Block           == 0 .. payload_bit_cnt - 1

\* The encoded bitmap so far, with the last 1-bit appended to it
Empty == [words |-> <<>>, max |-> 0]

\* dirty is the set of the dirty bit, or empty.
make_fill_word(val, rep, dirty) == [fill |-> TRUE, val |-> val, cnt |-> rep, dirty |-> dirty]

Zeros(cnt) ==
  IF cnt = 0 THEN <<>>
  ELSE IF cnt = 1 THEN <<Literal({})>>
  ELSE <<make_fill_word(FALSE, cnt - 1, {})>>

\* Mutant of compress: the bit that is off is looked for among the 1-bits.
compressOnes(words) ==
  LET prev == words[Len(words) - 1]
      kept == SubSeq(words, 1, Len(words) - 2)
  IN  IF Len(words) < 2 \/ Last(words).ones # Block THEN words
      ELSE IF prev.fill
        THEN IF prev.val THEN Append(kept, [prev EXCEPT !.cnt = @ + 1]) ELSE words
      ELSE IF Cardinality(prev.ones) <= 1
        THEN Append(kept, make_fill_word(TRUE, 1, prev.ones))
      ELSE words

\* A literal that has just filled up with 1-bits joins a fill of 1-bits, or
\* makes one with a literal that is full but for one bit.
compress(words) ==
  LET prev == words[Len(words) - 1]
      kept == SubSeq(words, 1, Len(words) - 2)
      off  == Block \ prev.ones
  IN  IF Len(words) < 2 \/ Last(words).ones # Block THEN words
      ELSE IF prev.fill
        THEN IF prev.val THEN Append(kept, [prev EXCEPT !.cnt = @ + 1]) ELSE words
      ELSE IF Cardinality(off) <= 1
        THEN Append(kept, make_fill_word(TRUE, 1, off))
      ELSE words

\* Blocks of zeros behind the last word: a literal with a single 1-bit becomes
\* a fill with that bit in it.
AppendZeros(words, cnt) ==
  LET w == Last(words) IN
  IF cnt > 0 /\ ~w.fill /\ Cardinality(w.ones) = 1
    THEN ReplaceLast(words, make_fill_word(FALSE, cnt, w.ones))
    ELSE words \o Zeros(cnt)

append(e, i) ==
  LET bit_pos == (e.max % payload_bit_cnt) + i - e.max
      active  == IF bit_pos < payload_bit_cnt THEN e.words
                 ELSE Append(AppendZeros(e.words, (bit_pos \div payload_bit_cnt) - 1), Literal({}))
      ones    == Last(active).ones \cup {bit_pos % payload_bit_cnt}
  IN  IF e.words = <<>>
        THEN [words |-> Append(Zeros(i \div payload_bit_cnt), Literal({i % payload_bit_cnt})),
              max |-> i]
        ELSE [words |-> compress(ReplaceLast(active, Literal(ones))), max |-> i]

encode(bits) ==
  LET ones == Ordered({i \in Pos : bits[i]})
      after[k \in 0 .. Len(ones)] == IF k = 0 THEN Empty ELSE append(after[k - 1], ones[k])
  IN  after[Len(ones)].words

WordOK(w) ==
  IF w.fill THEN w.cnt > 0 /\ w.dirty \subseteq Block ELSE w.ones \subseteq Block

Size(w) == IF w.fill THEN (w.cnt + 1) * payload_bit_cnt ELSE payload_bit_cnt

\* What the iterator reads: the dirty bit is in the first block.
View(words) ==
  [k \in DOMAIN words |->
     LET w == words[k] IN
     [size |-> Size(w),
      ones |-> IF ~w.fill THEN w.ones
               ELSE IF w.val THEN (0 .. Size(w) - 1) \ w.dirty
               ELSE w.dirty]]

\* What test() reads: a dirty bit in every block
TestView(words) ==
  [k \in DOMAIN words |->
     LET w == words[k]
         dirty == {i \in 0 .. Size(w) - 1 : (i % payload_bit_cnt) \in w.dirty}
     IN  [size |-> Size(w),
          ones |-> IF ~w.fill THEN w.ones
                   ELSE IF w.val THEN (0 .. Size(w) - 1) \ dirty
                   ELSE dirty]]

\* next() does not move the position to the end of the bitmap when there is no
\* 1-bit left; it stays behind the last word.
concise_next(view, it) ==
  LET to == next(view, it)
      at == Begins(view, 1, 0)[Len(view) + 1]
  IN  IF to.length = 0 THEN [to EXCEPT !.pos = at] ELSE to
=============================================================================
