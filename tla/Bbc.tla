-------------------------------- MODULE Bbc --------------------------------
(***************************************************************************)
(* bbc: the bytes of the plain bitmap in runs of fill bytes, each with a   *)
(* tail: one byte that differs from the fill in a single bit, or some      *)
(* literal bytes.  A long fill has its length in the bytes behind the      *)
(* header, a digit each, the last one marked.  A reader decodes it all and *)
(* works on the plain bitmap.                                              *)
(***************************************************************************)
EXTENDS RunWords

CONSTANTS
  W,                    \* bits per byte (8)
  ShortFill,            \* fills shorter than this fit the header (4)
  Base, Digits,         \* a length has Digits digits of Base values (2^7, 4)
  max_tail_byte_cnt

max_fill_byte_cnt == Base ^ Digits
byte_cnt          == (N + W - 1) \div W

all_zero == {}
all_one  == 0 .. W - 1

Bytes(bits) == [k \in 0 .. byte_cnt - 1 |-> {i \in 0 .. W - 1 : k * W + i < N /\ bits[k * W + i]}]

\* Mutant of determine_byte_kind: a byte with one 1-bit needs no 0-bytes before.
determine_byte_kindAlone(bytes, i) ==
  IF bytes[i] = all_zero THEN "ALL_ZERO"
  ELSE IF bytes[i] = all_one THEN "ALL_ONE"
  ELSE IF Cardinality(bytes[i]) = 1 THEN "ALMOST_ALL_ZERO"
  ELSE IF Cardinality(bytes[i]) = W - 1 /\ i > 0 /\ bytes[i - 1] = all_one THEN "ALMOST_ALL_ONE"
  ELSE "MIXED"

determine_byte_kind(bytes, i) ==
  IF bytes[i] = all_zero THEN "ALL_ZERO"
  ELSE IF bytes[i] = all_one THEN "ALL_ONE"
  ELSE IF Cardinality(bytes[i]) = 1 /\ i > 0 /\ bytes[i - 1] = all_zero THEN "ALMOST_ALL_ZERO"
  ELSE IF Cardinality(bytes[i]) = W - 1 /\ i > 0 /\ bytes[i - 1] = all_one THEN "ALMOST_ALL_ONE"
  ELSE "MIXED"

FillEnd(bytes, b) ==
  LET kind == determine_byte_kind(bytes, b)
  IN  IF kind \notin {"ALL_ZERO", "ALL_ONE"} THEN b
      ELSE Min({e \in b + 1 .. byte_cnt :
                  \/ e = byte_cnt
                  \/ e - b = max_fill_byte_cnt
                  \/ determine_byte_kind(bytes, e) # kind})

HasDirtyTail(bytes, e) ==
  e < byte_cnt /\ determine_byte_kind(bytes, e) \in {"ALMOST_ALL_ZERO", "ALMOST_ALL_ONE"}

\* The tail bytes are counted together with the fill.
LiteralEnd(bytes, b, fill_end) ==
  Min({e \in fill_end .. byte_cnt :
         \/ e = byte_cnt
         \/ e - b >= max_tail_byte_cnt
         \/ determine_byte_kind(bytes, e) # "MIXED"})

\* The digits of a length, the highest one first; all but the last have a mark
Counter(cnt) ==
  LET digits == Min({d \in 1 .. Digits + 1 : cnt < Base ^ d})
  IN  [k \in 1 .. digits |->
         [digit |-> (cnt \div Base ^ (digits - k)) % Base, more |-> k < digits]]

\* A run: its header, the length of a long fill, the literal bytes
EncodeRun(bytes, b, fill_end, tail_end) ==
  LET cnt   == fill_end - b
      dirty == HasDirtyTail(bytes, fill_end)
      hdr   == [long |-> cnt >= ShortFill,
                fill |-> cnt > 0 /\ bytes[b] = all_one,
                cnt  |-> IF cnt < ShortFill THEN cnt ELSE 0,
                dirty |-> IF ~dirty THEN {}
                          ELSE IF Cardinality(bytes[fill_end]) = 1 THEN bytes[fill_end]
                          ELSE all_one \ bytes[fill_end],
                tail |-> IF dirty THEN 0 ELSE tail_end - fill_end]
  IN  <<hdr>> \o (IF hdr.long THEN Counter(cnt) ELSE <<>>)
              \o [k \in 1 .. hdr.tail |-> bytes[fill_end + k - 1]]

encode(bits) ==
  LET bytes == Bytes(bits)
      from[b \in 0 .. byte_cnt] ==
        IF b = byte_cnt THEN <<>>
        ELSE LET f == FillEnd(bytes, b)
                 e == IF HasDirtyTail(bytes, f) THEN f + 1 ELSE LiteralEnd(bytes, b, f)
             IN  EncodeRun(bytes, b, f, e) \o from[e]
  IN  from[0]

\* The encoder writes the longest fill with one digit more than are read.
HasLongestFill(bits) ==
  LET bytes == Bytes(bits)
      at[b \in 0 .. byte_cnt] ==
        IF b = byte_cnt THEN FALSE
        ELSE LET f == FillEnd(bytes, b)
                 e == IF HasDirtyTail(bytes, f) THEN f + 1 ELSE LiteralEnd(bytes, b, f)
             IN  f - b = max_fill_byte_cnt \/ at[e]
  IN  at[0]

-----------------------------------------------------------------------------
\* The digits read behind a header: at most Digits of them, up to an unmarked one
CounterLen(data, i) == Min({k \in 1 .. Digits : ~data[i + k].more} \cup {Digits + 1})

ReadCounter(data, i) ==
  LET cnt[k \in 0 .. Digits] == IF k = 0 THEN 0 ELSE cnt[k - 1] * Base + data[i + k].digit
  IN  cnt[AtMost(CounterLen(data, i), Digits)]

to_plain_bitmap(data) ==
  LET from[i \in 1 .. Len(data) + 1] ==
        IF i > Len(data) THEN <<>>
        ELSE LET hdr  == data[i]
                 len  == IF hdr.long THEN CounterLen(data, i) ELSE 0
                 cnt  == IF hdr.long THEN ReadCounter(data, i) ELSE hdr.cnt
                 fill == IF hdr.fill THEN all_one ELSE all_zero
                 tail == IF hdr.dirty # {} THEN <<SymDiff(fill, hdr.dirty)>>
                         ELSE SubSeq(data, i + len + 1, i + len + hdr.tail)
             IN  [k \in 1 .. cnt |-> fill] \o tail \o from[i + len + hdr.tail + 1]
  IN  from[1]

\* The decoded bitmap, one word to the iterator
View(data) ==
  LET bytes == to_plain_bitmap(data)
  IN  <<[size |-> N,
         ones |-> {i \in Pos : i \div W < Len(bytes) /\ (i % W) \in bytes[i \div W + 1]}]>>
=============================================================================
