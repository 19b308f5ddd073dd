------------------------------ MODULE RunWords ------------------------------
(***************************************************************************)
(* What the run-length codecs share.  A bitmap is taken apart into runs    *)
(* and encoded as a sequence of words; a reader sees a word as a number of *)
(* bits, some of them 1 ("view").  The 1-run iterators walk over the words *)
(* and give a piece of a 1-run at a time, cut where a word ends.           *)
(***************************************************************************)
EXTENDS Integers, FiniteSets, FiniteSetsExt, Sequences

CONSTANTS
  N,                \* the length of the bitmap
  SkipDistance      \* words per entry of the skip index

Pos == 0 .. N - 1

AtMost(a, b) == IF a < b THEN a ELSE b

\* The members of a set of positions in their order
Ordered(S) == [k \in 1 .. Cardinality(S) |-> CHOOSE i \in S : Cardinality({j \in S : j < i}) = k - 1]

\* The runs of a bitmap, 0-runs and 1-runs in turn, as a constructor appends
\* them
RunsOf(bits) ==
  LET begins == Ordered({i \in Pos : i = 0 \/ bits[i] # bits[i - 1]})
      ends   == Append(Tail(begins), N)
  IN  [k \in DOMAIN begins |-> [val |-> bits[begins[k]], len |-> ends[k] - begins[k]]]

Literal(ones)  == [fill |-> FALSE, ones |-> ones]
Fill(val, cnt) == [fill |-> TRUE, val |-> val, cnt |-> cnt]

\* The last word, and the words before it
Last(words)  == words[Len(words)]
Front(words) == SubSeq(words, 1, Len(words) - 1)

ReplaceLast(words, w) == Append(Front(words), w)

-----------------------------------------------------------------------------
\* The first bit of each word, counted on from word w, which begins at begin
Begins(view, w, begin) ==
  LET at[k \in w .. Len(view) + 1] == IF k = w THEN begin ELSE at[k - 1] + view[k - 1].size
  IN  at

\* test(), from a word and its first bit on
TestFrom(view, w, begin, pos) ==
  LET at == Begins(view, w, begin)
  IN  \E k \in w .. Len(view) : /\ at[k] <= pos /\ pos < at[k + 1]
                                /\ pos - at[k] \in view[k].ones

test(view, pos) == TestFrom(view, 1, 0, pos)

\* The 1-bits of all words
Ones(view) ==
  LET at == Begins(view, 1, 0)
  IN  UNION {{at[k] + i : i \in view[k].ones} : k \in DOMAIN view}

-----------------------------------------------------------------------------
\* An iterator stands in a word, at the bit behind the run it gives.
Start == [word |-> 1, in |-> 0, pos |-> 0, length |-> 0]

AtEnd(view, pos) == [word |-> Len(view) + 1, in |-> 0, pos |-> pos, length |-> 0]

\* Mutant of next: the bits of a word that were read already are counted again.
nextPassesAll(view, it) ==
  LET Left(k) == {i \in view[k].ones : k = it.word => i >= it.in}
      hits    == {k \in it.word .. Len(view) : Left(k) # {}}
      k       == Min(hits)
      b       == Min(Left(k))
      e       == Min((b .. view[k].size) \ view[k].ones)
  IN  IF hits = {} THEN AtEnd(view, N)
      ELSE [word |-> k, in |-> e, length |-> e - b,
            pos  |-> Begins(view, it.word, it.pos + it.length)[k] + b]

\* next(): the next 1-bits of this word, or of the first word that has any
next(view, it) ==
  LET Left(k) == {i \in view[k].ones : k = it.word => i >= it.in}
      hits    == {k \in it.word .. Len(view) : Left(k) # {}}
      k       == Min(hits)
      b       == Min(Left(k))
      e       == Min((b .. view[k].size) \ view[k].ones)
  IN  IF hits = {} THEN AtEnd(view, N)
      ELSE [word |-> k, in |-> e, length |-> e - b,
            pos  |-> Begins(view, it.word, it.pos + it.length - it.in)[k] + b]

\* Mutant of Clip: the position moves, the length stays.
ClipKeepsLength(it, to) == IF it.length > 0 /\ it.pos < to THEN [it EXCEPT !.pos = to] ELSE it

\* The part of a run from a position on
Clip(it, to) ==
  IF it.length > 0 /\ it.pos < to
    THEN [it EXCEPT !.pos = to, !.length = @ - (to - it.pos)] ELSE it

Exhausted(it) == [it EXCEPT !.pos = N, !.length = 0]

\* skip_to(): next() until the run reaches beyond the position
skip_to(view, it, to) ==
  LET walk[k \in 0 .. N] ==
        IF k = 0 THEN it
        ELSE LET i == walk[k - 1] IN
             IF i.length > 0 /\ i.pos + i.length <= to THEN next(view, i) ELSE i
  IN  IF to >= N THEN Exhausted(it) ELSE Clip(walk[N], to)

-----------------------------------------------------------------------------
\* The skip variants keep the first bit of every SkipDistance-th word but the
\* last, in a table that is never empty.
init_skip_offsets(view) ==
  LET last == IF Len(view) > 1 THEN (Len(view) - 2) \div SkipDistance ELSE 0
  IN  [j \in 0 .. last |-> Begins(view, 1, 0)[j * SkipDistance + 1]]

\* Mutant of Entry: the first entry that is not below the position.
EntryLowerBound(offsets, pos) ==
  LET below == {j \in DOMAIN offsets : offsets[j] < pos}
  IN  IF below = {} THEN 0 ELSE AtMost(Max(below) + 1, Max(DOMAIN offsets))

\* The last entry that is not behind the position (upper_bound, minus one)
Entry(offsets, pos) == Max({j \in DOMAIN offsets : offsets[j] <= pos})

test_by_index(view, offsets, pos) ==
  LET j == Entry(offsets, pos) IN TestFrom(view, j * SkipDistance + 1, offsets[j], pos)

\* skip_to() goes back to the indexed word and walks from there; the iterator
\* is at its end by its position.
skip_by_index(view, offsets, it, to) ==
  LET j == Entry(offsets, to)
      walk[k \in 0 .. N] ==
        IF k = 0 THEN [word |-> j * SkipDistance + 1, in |-> 0, pos |-> offsets[j], length |-> 0]
        ELSE LET i == walk[k - 1] IN
             IF i.pos < N /\ i.pos + i.length <= to THEN next(view, i) ELSE i
  IN  IF to >= N THEN Exhausted(it) ELSE Clip(walk[N], to)
=============================================================================
