-------------------------------- MODULE Bah --------------------------------
(***************************************************************************)
(* bah: the words of the plain bitmap, grouped into segments of one kind.  *)
(* The main stream has a byte per segment, or per piece of it; the words   *)
(* of a literal segment, the high parts of two-byte codes and the counters *)
(* of long 0-segments are in streams of their own, which a reader follows  *)
(* with a position each.                                                   *)
(***************************************************************************)
EXTENDS RunWords

CONSTANTS
  W,            \* bits per word
  Oep, Tep,     \* the tables of patterns with a one-byte and a two-byte code
  Codes,        \* the values of the code part of a main byte (2^6)
  MaxZeros      \* the longest 0-segment that is cut in pieces (252)

\* The longest segment of one main byte
MaxPiece == Codes - 1

word_cnt == (N + W - 1) \div W

Words(bits) == [k \in 0 .. word_cnt - 1 |-> {i \in 0 .. W - 1 : k * W + i < N /\ bits[k * W + i]}]

OepCode(w) == {c \in DOMAIN Oep : Oep[c] = w}
TepCode(w) == {c \in DOMAIN Tep : Tep[c] = w}

get_word_kind(w) ==
  IF w = {} THEN "zero"
  ELSE IF OepCode(w) \cup TepCode(w) # {} THEN "encodable"
  ELSE "literal"

Byte(type, n) == [type |-> type, n |-> n]

Nothing == [main |-> <<>>, data |-> <<>>, index |-> <<>>, counter |-> <<>>]

\* Mutant of SegmentEnd: a literal segment grows beyond what its byte counts.
SegmentEndUnbounded(words, begin) ==
  LET kind == get_word_kind(words[begin])
  IN  Min({e \in begin + 1 .. word_cnt :
             \/ e = word_cnt
             \/ get_word_kind(words[e]) # kind
             \/ kind = "encodable"})

SegmentEnd(words, begin) ==
  LET kind == get_word_kind(words[begin])
  IN  Min({e \in begin + 1 .. word_cnt :
             \/ e = word_cnt
             \/ get_word_kind(words[e]) # kind
             \/ kind = "encodable"
             \/ kind = "literal" /\ e - begin = MaxPiece})

\* A 0-segment: its length in the counter stream, or pieces of it
ZeroSegment(len) ==
  IF len > MaxZeros THEN [Nothing EXCEPT !.main = <<Byte("zero", 0)>>, !.counter = <<len>>]
  ELSE [Nothing EXCEPT !.main =
          [k \in 1 .. (len + MaxPiece - 1) \div MaxPiece |->
             Byte("zero", AtMost(MaxPiece, len - (k - 1) * MaxPiece))]]

LiteralSegment(words) ==
  [Nothing EXCEPT !.main = <<Byte("literal", Len(words))>>, !.data = words]

EncodableSegment(w) ==
  IF OepCode(w) # {}
    THEN [Nothing EXCEPT !.main = <<Byte("oep", Min(OepCode(w)))>>]
    ELSE LET code == Min(TepCode(w))
         IN  [Nothing EXCEPT !.main = <<Byte("tep", code % Codes)>>, !.index = <<code \div Codes>>]

Segment(words, begin, end) ==
  LET kind == get_word_kind(words[begin])
  IN  IF kind = "zero" THEN ZeroSegment(end - begin)
      ELSE IF kind = "literal"
        THEN LiteralSegment([k \in 1 .. end - begin |-> words[begin + k - 1]])
      ELSE EncodableSegment(words[begin])

encode(bits) ==
  LET words == Words(bits)
      from[b \in 0 .. word_cnt] ==
        IF b = word_cnt THEN Nothing
        ELSE LET e == SegmentEnd(words, b)
                 s == Segment(words, b, e)
             IN  [x \in DOMAIN Nothing |-> s[x] \o from[e][x]]
  IN  from[0]

\* The bytes of the main stream count no further than they can.
WordOK(b) == b.n \in 0 .. Codes - 1

-----------------------------------------------------------------------------
\* A reader in the streams, and what it has read
Reader == [view |-> <<>>, data |-> 0, index |-> 0, counter |-> 0]

Zeros(cnt) == [size |-> cnt * W, ones |-> {}]
Plain(w)   == [size |-> W, ones |-> w]

\* Mutant of Read: the words of a literal segment are read again.
ReadDataAgain(s, r, b) ==
  CASE b.type = "zero" /\ b.n = 0 ->
         [r EXCEPT !.view = Append(@, Zeros(s.counter[r.counter + 1])), !.counter = @ + 1]
    [] b.type = "zero" /\ b.n > 0 -> [r EXCEPT !.view = Append(@, Zeros(b.n))]
    [] b.type = "literal" ->
         [r EXCEPT !.view = @ \o [k \in 1 .. b.n |-> Plain(s.data[r.data + k])], !.data = @ + 1]
    [] b.type = "oep" -> [r EXCEPT !.view = Append(@, Plain(Oep[b.n]))]
    [] b.type = "tep" ->
         [r EXCEPT !.view = Append(@, Plain(Tep[b.n + Codes * s.index[r.index + 1]])),
                   !.index = @ + 1]

\* A main byte is read, with what it takes from the other streams.
Read(s, r, b) ==
  CASE b.type = "zero" /\ b.n = 0 ->
         [r EXCEPT !.view = Append(@, Zeros(s.counter[r.counter + 1])), !.counter = @ + 1]
    [] b.type = "zero" /\ b.n > 0 -> [r EXCEPT !.view = Append(@, Zeros(b.n))]
    [] b.type = "literal" ->
         [r EXCEPT !.view = @ \o [k \in 1 .. b.n |-> Plain(s.data[r.data + k])], !.data = @ + b.n]
    [] b.type = "oep" -> [r EXCEPT !.view = Append(@, Plain(Oep[b.n]))]
    [] b.type = "tep" ->
         [r EXCEPT !.view = Append(@, Plain(Tep[b.n + Codes * s.index[r.index + 1]])),
                   !.index = @ + 1]

View(s) ==
  LET read[k \in 0 .. Len(s.main)] == IF k = 0 THEN Reader ELSE Read(s, read[k - 1], s.main[k])
  IN  read[Len(s.main)].view
=============================================================================
