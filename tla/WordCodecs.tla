----------------------------- MODULE WordCodecs -----------------------------
(***************************************************************************)
(* The run-length codecs as their readers use them: a bitmap is encoded,   *)
(* then tested and read with a 1-run iterator, by any mix of next() and    *)
(* skip_to().                                                              *)
(***************************************************************************)
EXTENDS Integers, FiniteSets, Sequences, FiniteSetsExt

CONSTANTS
  N,                \* the length of the bitmap
  SkipDistance,     \* words per entry of a skip index
  XahBits,          \* the bits of a word of xah,
  UahBits,          \* of uah,
  ConciseBits,      \* and of concise
  MaxRuns,          \* bound: the number of 1-runs of a bitmap
  Kinds             \* which of the codecs

Skipping == {"xah_skip", "uah_skip"}
Counting == {"xah", "xah_skip", "uah", "uah_skip"}   \* append runs, and count their bits
Trees    == {"teb", "teb_scan"}                      \* no words: see Codecs

\* A word has a bit for its kind, one for the value of a fill, and a count.
ASSUME WordCodecsAssumption ==
  /\ N \in Nat \ {0} /\ SkipDistance \in Nat \ {0} /\ MaxRuns \in Nat
  /\ XahBits \in Nat \ 0 .. 2 /\ UahBits \in Nat \ 0 .. 2 /\ ConciseBits \in Nat \ 0 .. 2
  /\ Kinds \subseteq {"concise", "bah", "bbc"} \cup Counting

\* Words of a few bits; BAH with one pattern of one byte and four of two
Oep == [c \in {0} |-> {0}]
Tep == <<{1}, {2}, {0, 1}, {1, 2}>>

R       == INSTANCE RunWords
Xah     == INSTANCE Xah WITH W <- XahBits
Uah     == INSTANCE Uah WITH W <- UahBits
Concise == INSTANCE Concise WITH W <- ConciseBits
Bah     == INSTANCE Bah WITH W <- 3, Codes <- 3, MaxZeros <- 4
Bbc     == INSTANCE Bbc WITH W <- 3, ShortFill <- 2, Base <- 2, Digits <- 2,
                             max_tail_byte_cnt <- 2

VARIABLES
  codec,        \* which codec
  bits,         \* the bitmap that was encoded
  encoded,      \* its words
  view,         \* the bits a reader finds in each word
  it,           \* the 1-run iterator
  from          \* the first position that the client has not passed

vars == <<codec, bits, encoded, view, it, from>>

FirstBits(b)  == {i \in R!Pos : b[i] /\ (i = 0 \/ ~b[i - 1])}
Bitmaps(runs) == {b \in [R!Pos -> BOOLEAN] : Cardinality(FirstBits(b)) <= runs}

Encode(c, b) ==
  CASE c \in {"xah", "xah_skip"} -> Xah!encode(b)
    [] c \in {"uah", "uah_skip"} -> Uah!encode(b)
    [] c = "concise"             -> Concise!encode(b)
    [] c = "bah"                 -> Bah!encode(b)
    [] c = "bbc"                 -> Bbc!encode(b)

View(c, e) ==
  CASE c \in {"xah", "xah_skip"} -> Xah!View(e.words)
    [] c \in {"uah", "uah_skip"} -> Uah!View(e.words)
    [] c = "concise"             -> Concise!View(e)
    [] c = "bah"                 -> Bah!View(e)
    [] c = "bbc"                 -> Bbc!View(e)

offsets == R!init_skip_offsets(view)

test(pos) ==
  IF codec \in Skipping THEN R!test_by_index(view, offsets, pos)
  ELSE IF codec = "concise" THEN R!test(Concise!TestView(encoded), pos)
  ELSE R!test(view, pos)

next ==
  IF codec = "concise" THEN Concise!concise_next(view, it) ELSE R!next(view, it)

skip_to(to) ==
  IF codec \in Skipping THEN R!skip_by_index(view, offsets, it, to) ELSE R!skip_to(view, it, to)

end == IF codec \in Skipping THEN it.pos >= N ELSE it.length = 0

-----------------------------------------------------------------------------
InitWords ==
  /\ codec \in Kinds
  /\ bits \in Bitmaps(MaxRuns)
  /\ encoded = Encode(codec, bits)
  /\ view = View(codec, encoded)
  /\ it = R!next(view, R!Start)
  /\ from = 0

Advance ==
  /\ codec \in Kinds /\ ~end
  /\ it' = next
  /\ from' = it.pos + it.length
  /\ UNCHANGED <<codec, bits, encoded, view>>

Skip ==
  /\ codec \in Kinds /\ ~end
  /\ \E to \in it.pos .. N :
       /\ it' = skip_to(to)
       /\ from' = to
  /\ UNCHANGED <<codec, bits, encoded, view>>

NextWords == Advance \/ Skip

SpecWords == InitWords /\ [][NextWords]_vars

-----------------------------------------------------------------------------
\* The words are within what their bits can hold: no count is larger than its
\* field, no bit outside the payload.
TypeOK ==
  /\ codec \in Kinds \cup Trees /\ bits \in [R!Pos -> BOOLEAN]
  /\ it.pos \in Nat /\ it.length \in Nat /\ from \in 0 .. N
  /\ codec \in {"xah", "xah_skip"} => \A k \in DOMAIN encoded.words : Xah!WordOK(encoded.words[k])
  /\ codec \in {"uah", "uah_skip"} => \A k \in DOMAIN encoded.words : Uah!WordOK(encoded.words[k])
  /\ codec = "concise" => \A k \in DOMAIN encoded : Concise!WordOK(encoded[k])
  /\ codec = "bah" => \A k \in DOMAIN encoded.main : Bah!WordOK(encoded.main[k])

\* What bbc decodes wrong: a fill of the greatest length a header may have
Lossy == codec = "bbc" /\ Bbc!HasLongestFill(bits)

\* The words are never changed: what holds of them before the client has passed
\* a bit holds for good.
Untouched == from = 0

\* The words hold the bitmap that was appended to them run by run: a word that
\* fills up, overflows or changes its kind on the way (append_run of xah and
\* uah, append of concise, the segments of bah and the runs of bbc) loses no
\* bit and moves none, no 1-bit is left behind the end of the bitmap, and the
\* length that xah and uah count on the way, which ends their iterators, is N.
WordsHoldBits == Untouched =>
  /\ Lossy \/ R!Ones(view) = {i \in R!Pos : bits[i]}
  /\ codec \in Counting => encoded.length = N

\* A dirty bit of a concise fill, in the blocks behind the one that has it
RepeatedDirty(pos) ==
  LET at == R!Begins(view, 1, 0)
      P  == Concise!payload_bit_cnt
  IN  \E k \in DOMAIN encoded :
        /\ encoded[k].fill
        /\ at[k] + P <= pos /\ pos < at[k + 1]
        /\ ((pos - at[k]) % P) \in encoded[k].dirty

\* test() finds each bit, from the indexed word on where there is an index;
\* concise repeats the dirty bit of a fill in each of its blocks, and only
\* there test() is wrong.
TestAgrees == Untouched =>
  Lossy \/ \A pos \in R!Pos :
    (test(pos) # (codec = "concise" /\ RepeatedDirty(pos))) <=> bits[pos]

\* The iterator stands on the first 1-bit that the client has not passed, with
\* a run of 1-bits, and it is at the end only when there is none.
NextRun(over) ==
  LET left == {i \in R!Pos : i >= from /\ bits[i]}
  IN  \/ over /\ left = {}
      \/ /\ ~over /\ left # {}
         /\ it.pos = Min(left)
         /\ it.length > 0
         /\ it.pos .. it.pos + it.length - 1 \subseteq left

\* The iterator over words, moved in any way (by words, or from an indexed word
\* on), gives the next run: none is lost or given twice where words are crossed
\* or read again.
RunIsNext == codec \in Trees \/ Lossy \/ NextRun(end)
=============================================================================
